---- MODULE Spec2Model ----
(***************************************************************************)
(* Budget-based PID thermostat (homebridge-advanced-thermostat).           *)
(*                                                                         *)
(* The energy-budget controller is src/unnamed/part_002, the older         *)
(* minutes-budget controller is src/src/accessory.ts.                      *)
(*                                                                         *)
(* Numbers.  The code computes with JavaScript numbers.  A number is       *)
(* modelled as a record [t, n, d]: t = "num" is the rational n/d in lowest *)
(* terms with d > 0, t = "nzero" is -0, t = "pinf" / "ninf" are the        *)
(* infinities and t = "nan" is NaN; t = "undef" and t = "null" are the     *)
(* JavaScript values undefined and null, which the fields error and        *)
(* updated can hold.  Finite arithmetic is exact (no rounding), the        *)
(* special values follow IEEE 754 as JavaScript does.  Math.sqrt is exact  *)
(* on squares of rationals and rounded down to a multiple of 1/SqrtScale   *)
(* otherwise.                                                              *)
(*                                                                         *)
(* Time.  now is the wall clock in whole seconds.                          *)
(***************************************************************************)
EXTENDS Integers, Sequences, FiniteSets, TLC

\* ------------------------------------------------------------------------
\* JavaScript numbers
\* ------------------------------------------------------------------------

AbsI(i) == IF i < 0 THEN -i ELSE i

RECURSIVE GCD(_, _)
GCD(a, b) == IF b = 0 THEN a ELSE GCD(b, a % b)

NaN       == [t |-> "nan",   n |-> 0, d |-> 1]
PInf      == [t |-> "pinf",  n |-> 0, d |-> 1]
NInf      == [t |-> "ninf",  n |-> 0, d |-> 1]
NZero     == [t |-> "nzero", n |-> 0, d |-> 1]
Undefined == [t |-> "undef", n |-> 0, d |-> 1]
Null      == [t |-> "null",  n |-> 0, d |-> 1]

\* the rational n/d (d # 0) in lowest terms; a zero result is +0
Rat(n, d) ==
    LET g == GCD(AbsI(n), AbsI(d))
        s == IF d < 0 THEN -1 ELSE 1
    IN  [t |-> "num", n |-> s * (n \div g), d |-> s * (d \div g)]

Num(i) == Rat(i, 1)

IsNaN(x)    == x.t = "nan"
IsInf(x)    == x.t \in {"pinf", "ninf"}
IsFinite(x) == x.t \in {"num", "nzero"}
IsZero(x)   == x.t = "nzero" \/ (x.t = "num" /\ x.n = 0)
\* the sign bit of a number that is not NaN
IsNeg(x)    == x.t \in {"ninf", "nzero"} \/ (x.t = "num" /\ x.n < 0)
InfOf(neg)  == IF neg THEN NInf ELSE PInf
ZeroOf(neg) == IF neg THEN NZero ELSE Num(0)

\* unary minus
Neg(x) ==
    CASE x.t = "nan"   -> NaN
      [] x.t = "pinf"  -> NInf
      [] x.t = "ninf"  -> PInf
      [] x.t = "nzero" -> Num(0)
      [] OTHER         -> IF x.n = 0 THEN NZero ELSE Rat(-x.n, x.d)

\* x + y
Add(x, y) ==
    IF IsNaN(x) \/ IsNaN(y) THEN NaN
    ELSE IF IsInf(x) /\ IsInf(y) THEN (IF x = y THEN x ELSE NaN)
    ELSE IF IsInf(x) THEN x
    ELSE IF IsInf(y) THEN y
    ELSE IF IsZero(x) /\ IsZero(y) THEN ZeroOf(IsNeg(x) /\ IsNeg(y))
    ELSE LET g == GCD(x.d, y.d)
         IN  Rat(x.n * (y.d \div g) + y.n * (x.d \div g), x.d * (y.d \div g))

\* x - y
Sub(x, y) == Add(x, Neg(y))

\* x * y
Mul(x, y) ==
    IF IsNaN(x) \/ IsNaN(y) THEN NaN
    ELSE IF (IsInf(x) /\ IsZero(y)) \/ (IsZero(x) /\ IsInf(y)) THEN NaN
    ELSE IF IsInf(x) \/ IsInf(y) THEN InfOf(IsNeg(x) # IsNeg(y))
    ELSE IF IsZero(x) \/ IsZero(y) THEN ZeroOf(IsNeg(x) # IsNeg(y))
    ELSE LET g1 == GCD(AbsI(x.n), y.d)
             g2 == GCD(AbsI(y.n), x.d)
         IN  Rat((x.n \div g1) * (y.n \div g2), (x.d \div g2) * (y.d \div g1))

\* x / y
Div(x, y) ==
    IF IsNaN(x) \/ IsNaN(y) THEN NaN
    ELSE IF (IsInf(x) /\ IsInf(y)) \/ (IsZero(x) /\ IsZero(y)) THEN NaN
    ELSE IF IsInf(x) \/ IsZero(y) THEN InfOf(IsNeg(x) # IsNeg(y))
    ELSE IF IsInf(y) \/ IsZero(x) THEN ZeroOf(IsNeg(x) # IsNeg(y))
    ELSE LET g1 == GCD(AbsI(x.n), AbsI(y.n))
             g2 == GCD(x.d, y.d)
         IN  Rat((x.n \div g1) * (y.d \div g2), (x.d \div g2) * (y.n \div g1))

\* n1/d1 < n2/d2 for d1, d2 > 0, by integer parts first so that no product
\* of the operands is formed
RECURSIVE RatLt(_, _, _, _)
RatLt(n1, d1, n2, d2) ==
    LET q1 == n1 \div d1
        q2 == n2 \div d2
        r1 == n1 % d1
        r2 == n2 % d2
    IN  IF q1 # q2 THEN q1 < q2
        ELSE IF r2 = 0 THEN FALSE
        ELSE IF r1 = 0 THEN TRUE
        ELSE RatLt(d2, r2, d1, r1)

\* x < y
Lt(x, y) ==
    IF IsNaN(x) \/ IsNaN(y) THEN FALSE
    ELSE IF x.t = "pinf" \/ y.t = "ninf" THEN FALSE
    ELSE IF x.t = "ninf" \/ y.t = "pinf" THEN TRUE
    ELSE RatLt(x.n, x.d, y.n, y.d)

\* x > y, x <= y, x >= y, x === y, x !== y
Gt(x, y)  == Lt(y, x)
NumEq(x, y) ==
    IF IsNaN(x) \/ IsNaN(y) THEN FALSE
    ELSE IF IsInf(x) \/ IsInf(y) THEN x = y
    ELSE x.n = y.n /\ x.d = y.d
Le(x, y)  == Lt(x, y) \/ NumEq(x, y)
Ge(x, y)  == Le(y, x)
StrictNe(x, y) == ~NumEq(x, y)

\* Math.abs, Math.min, Math.max (NaN if an argument is NaN, -0 below +0)
Abs(x) == IF IsNaN(x) THEN NaN ELSE IF IsNeg(x) THEN Neg(x) ELSE x
MathMin(x, y) ==
    IF IsNaN(x) \/ IsNaN(y) THEN NaN
    ELSE IF Lt(x, y) THEN x
    ELSE IF Lt(y, x) THEN y
    ELSE IF IsNeg(x) THEN x ELSE y
MathMax(x, y) ==
    IF IsNaN(x) \/ IsNaN(y) THEN NaN
    ELSE IF Lt(x, y) THEN y
    ELSE IF Lt(y, x) THEN x
    ELSE IF IsNeg(x) THEN y ELSE x

\* the largest r with r * r <= m, searched between lo and hi
RECURSIVE ISqrtIn(_, _, _)
ISqrtIn(m, lo, hi) ==
    IF lo >= hi THEN lo
    ELSE LET mid == (lo + hi + 1) \div 2
         IN  IF mid * mid <= m THEN ISqrtIn(m, mid, hi) ELSE ISqrtIn(m, lo, mid - 1)
ISqrt(m) == ISqrtIn(m, 0, IF m < 46340 THEN m ELSE 46340)

\* the resolution of an inexact square root
SqrtScale == 16

\* Math.sqrt: a rational in lowest terms is a square iff its numerator and its
\* denominator are; otherwise the root is rounded down to a multiple of
\* 1/SqrtScale
Sqrt(x) ==
    IF IsNaN(x) THEN NaN
    ELSE IF IsZero(x) \/ x.t = "pinf" THEN x
    ELSE IF IsNeg(x) THEN NaN
    ELSE LET rn == ISqrt(x.n)
             rd == ISqrt(x.d)
             s2 == SqrtScale * SqrtScale
         IN  IF rn * rn = x.n /\ rd * rd = x.d THEN Rat(rn, rd)
             ELSE Rat(ISqrt((x.n \div x.d) * s2 + ((x.n % x.d) * s2) \div x.d),
                      SqrtScale)

\* x ?? y
Coalesce(x, y) == IF x.t \in {"undef", "null"} THEN y ELSE x

\* a value in arithmetic: null converts to 0, undefined to NaN
ToNumber(x) ==
    CASE x.t = "null"  -> Num(0)
      [] x.t = "undef" -> NaN
      [] OTHER         -> x

\* ------------------------------------------------------------------------
\* Bounds of the model
\* ------------------------------------------------------------------------

\* the clock stops advancing at MaxTime seconds
MaxTime == 2
\* at most MaxImmediates deferred updates are queued at a time
MaxImmediates == 2
\* HomeKit changes a characteristic at most MaxWrites times
MaxWrites == 3

\* ------------------------------------------------------------------------
\* State
\* ------------------------------------------------------------------------

VARIABLES
    config,              \* the configuration read by the constructor
    mode,                \* this.mode.value
    state,               \* this.state.value
    targetTemperature,   \* this.targetTemperature.value
    currentTemperature,  \* this.currentTemperature.value
    updated,             \* this.updated (seconds), or undefined
    error,               \* this.error
    biasW,               \* this.biasW
    budgetJ,             \* this.budgetJ
    scheduled,           \* the timer in this.scheduledUpdate is pending
    delayMs,             \* the delay that timer was armed with (ms), undefined if not pending
    armedAt,             \* when it was armed (seconds)
    timers,              \* number of pending timers of the process
    immediates,          \* number of updates queued with setImmediate
    decision,            \* the arguments of the last logData call
    persisted,           \* the snapshot file at persistPath
    phase,               \* "running", or "shutdown" once the shutdown handler ran
    writes,              \* how often HomeKit has changed a characteristic
    now                  \* wall clock, seconds

vars == <<config, mode, state, targetTemperature, currentTemperature, updated,
          error, biasW, budgetJ, scheduled, delayMs, armedAt, timers, immediates,
          decision, persisted, phase, writes, now>>

control == <<mode, state, targetTemperature, currentTemperature, updated,
             error, biasW, budgetJ>>

\* hap.Characteristic.TargetHeatingCoolingState / CurrentHeatingCoolingState
Mode  == {"OFF", "HEAT", "COOL", "AUTO"}
State == {"OFF", "HEAT", "COOL"}

\* the configurations the model is run with (config.power, config.pid,
\* config.modulation, config.dataLog): heating only, cooling only and both;
\* without overshoot compensation (k = 0) and integral gain, and with
\* compensation and no integral gain, which keeps the exact fractions of the
\* model small; dt is left empty, minimumUpdateInterval is absent
Configs ==
    {c \in
     [heatingPower : {Num(0), Num(2)},
      coolingPower : {Num(0), Num(2)},
      cP : {Num(1)},
      cI : {Num(0), Num(1)},
      cD : {Num(2)},
      k : {Num(0), Num(2)},
      dt : {Undefined},
      budgetThresholdJ : {Num(2)},
      minimumUpdateIntervalS : {PInf}] :
     /\ Gt(c.heatingPower, Num(0)) \/ Gt(c.coolingPower, Num(0))
     /\ IsZero(c.k) # IsZero(c.cI)}

\* the target temperatures and the current temperatures HomeKit sends
TargetTemperatures  == {20, 21}
CurrentTemperatures == {20, 21}

\* validValues of the mode characteristic
validModes ==
    {"OFF"}
    \cup (IF Gt(config.heatingPower, Num(0)) THEN {"HEAT"} ELSE {})
    \cup (IF Gt(config.coolingPower, Num(0)) THEN {"COOL"} ELSE {})
    \cup (IF Gt(config.heatingPower, Num(0)) /\ Gt(config.coolingPower, Num(0))
          THEN {"AUTO"} ELSE {})

\* ------------------------------------------------------------------------
\* Persistence
\* ------------------------------------------------------------------------

\* JSON.stringify of a number field: NaN and the infinities become null, -0
\* becomes 0, an undefined field is left out
ToJson(x) ==
    CASE x.t \in {"nan", "pinf", "ninf"} -> Null
      [] x.t = "nzero"                   -> Num(0)
      [] OTHER                           -> x

\* the fields of AdvancedThermostatPersistedState
PersistedFields ==
    {"mode", "state", "targetTemperature", "temperature", "updated", "error",
     "biasW", "budgetJ"}

\* no file at persistPath: persistedState stays undefined, every field is
\* missing (the values of missing fields are not read); parses tells whether
\* JSON.parse accepts the text of the file
NoFile ==
    [exists |-> FALSE, parses |-> TRUE, missing |-> PersistedFields,
     mode |-> "OFF", state |-> "OFF", targetTemperature |-> 20,
     temperature |-> 20, updated |-> Undefined, error |-> Undefined,
     biasW |-> Undefined, budgetJ |-> Undefined]

\* the file saveState writes; JSON.stringify leaves out the undefined fields
saveState ==
    [exists |-> TRUE, parses |-> TRUE,
     missing |-> (IF updated.t = "undef" THEN {"updated"} ELSE {})
                 \cup (IF error.t = "undef" THEN {"error"} ELSE {}),
     mode |-> mode, state |-> state,
     targetTemperature |-> targetTemperature, temperature |-> currentTemperature,
     updated |-> updated, error |-> ToJson(error),
     biasW |-> ToJson(biasW), budgetJ |-> ToJson(budgetJ)]

\* persistedState?.field of a number field of file p
numberField(p, field, value) == IF field \in p.missing THEN Undefined ELSE value

\* loadState had it taken the fields of the file as they are
loadStateWithoutDefaults(p) ==
    [mode |-> p.mode, state |-> p.state,
     targetTemperature |-> p.targetTemperature,
     currentTemperature |-> p.temperature,
     updated |-> numberField(p, "updated", p.updated),
     error |-> numberField(p, "error", p.error),
     biasW |-> numberField(p, "biasW", p.biasW),
     budgetJ |-> numberField(p, "budgetJ", p.budgetJ)]

\* loadState had it left this.updated undefined
loadStateWithoutUpdated(p) ==
    [mode |-> IF "mode" \in p.missing THEN "OFF" ELSE p.mode,
     state |-> IF "state" \in p.missing THEN "OFF" ELSE p.state,
     targetTemperature |->
         IF "targetTemperature" \in p.missing THEN 20 ELSE p.targetTemperature,
     currentTemperature |->
         IF "temperature" \notin p.missing THEN p.temperature
         ELSE IF "targetTemperature" \notin p.missing THEN p.targetTemperature
         ELSE 20,
     updated |-> Undefined,
     error |-> numberField(p, "error", p.error),
     biasW |-> Coalesce(numberField(p, "biasW", p.biasW), Num(0)),
     budgetJ |-> Coalesce(numberField(p, "budgetJ", p.budgetJ), Num(0))]

\* the control state loadState restores from file p
loadState(p) ==
    [mode |-> IF "mode" \in p.missing THEN "OFF" ELSE p.mode,
     state |-> IF "state" \in p.missing THEN "OFF" ELSE p.state,
     targetTemperature |->
         IF "targetTemperature" \in p.missing THEN 20 ELSE p.targetTemperature,
     currentTemperature |->
         IF "temperature" \notin p.missing THEN p.temperature
         ELSE IF "targetTemperature" \notin p.missing THEN p.targetTemperature
         ELSE 20,
     updated |-> IF numberField(p, "updated", p.updated).t \in {"undef", "null"}
                 THEN Undefined ELSE p.updated,
     error |-> numberField(p, "error", p.error),
     biasW |-> Coalesce(numberField(p, "biasW", p.biasW), Num(0)),
     budgetJ |-> Coalesce(numberField(p, "budgetJ", p.budgetJ), Num(0))]

\* ------------------------------------------------------------------------
\* The energy-budget controller
\* ------------------------------------------------------------------------

getPower(st) ==
    IF st = "HEAT" THEN config.heatingPower
    ELSE IF st = "COOL" THEN Neg(config.coolingPower) ELSE Num(0)

\* limitPower had it returned the power as it is
limitPowerUnlimited(m, power) == power

limitPower(m, power) ==
    LET max == IF m \in {"HEAT", "AUTO"} THEN config.heatingPower ELSE Num(0)
        min == IF m \in {"COOL", "AUTO"} THEN Neg(config.coolingPower) ELSE Num(0)
    IN  MathMax(MathMin(power, max), min)

canHeat(m) == m = "HEAT" \/ m = "AUTO"
canCool(m) == m = "COOL" \/ m = "AUTO"

\* the headroom getCompensationFactor computes
headroomOf(e, bias) ==
    IF Ge(e, Num(0)) THEN Sub(config.heatingPower, bias)
    ELSE Sub(bias, config.coolingPower)

getCompensationFactor(e, bias) ==
    LET dt == Coalesce(config.dt, Abs(e))
        factor == Div(Num(1), Add(Num(1), Div(Mul(config.k, dt), headroomOf(e, bias))))
    IN  IF IsNaN(factor) THEN Num(0) ELSE factor

\* the smaller of Math.min(...t.filter(t => t > 0), Infinity) for a set t
RECURSIVE MinPositive(_)
MinPositive(ts) ==
    IF ts = {} THEN PInf
    ELSE LET t == CHOOSE x \in ts : TRUE
             rest == MinPositive(ts \ {t})
         IN  IF Gt(t, Num(0)) THEN MathMin(t, rest) ELSE rest

epsilon == Rat(1, 100000000)

\* Math.min(...t, Infinity) without the filter t > 0
RECURSIVE MinOfAll(_)
MinOfAll(ts) ==
    IF ts = {} THEN PInf
    ELSE LET t == CHOOSE x \in ts : TRUE
         IN  MathMin(t, MinOfAll(ts \ {t}))

\* solveDuration had it kept the roots that are not positive
solveDurationUnfiltered(a, b, cs) ==
    IF Gt(Abs(a), epsilon)
    THEN LET underSqrt == {Sub(Mul(b, b), Mul(Mul(Num(4), a), c)) : c \in cs}
             sqrt == {Sqrt(us) : us \in {u \in underSqrt : Ge(u, Num(0))}}
             t == UNION {{Div(Sub(Neg(b), sq), Mul(Num(2), a)),
                          Div(Add(Neg(b), sq), Mul(Num(2), a))} : sq \in sqrt}
         IN  MinOfAll(t)
    ELSE IF Gt(Abs(b), epsilon)
    THEN MinOfAll({Div(Neg(c), b) : c \in cs})
    ELSE PInf

\* solveDuration had it taken only the root with + sqrt
solveDurationPlusRoot(a, b, cs) ==
    IF Gt(Abs(a), epsilon)
    THEN LET underSqrt == {Sub(Mul(b, b), Mul(Mul(Num(4), a), c)) : c \in cs}
             sqrt == {Sqrt(us) : us \in {u \in underSqrt : Ge(u, Num(0))}}
             t == {Div(Add(Neg(b), sq), Mul(Num(2), a)) : sq \in sqrt}
         IN  MinPositive(t)
    ELSE IF Gt(Abs(b), epsilon)
    THEN MinPositive({Div(Neg(c), b) : c \in cs})
    ELSE PInf

\* the positive roots of a t^2 + b t + c = 0 over the c of cs, as computeDuration
\* finds them
solveDuration(a, b, cs) ==
    IF Gt(Abs(a), epsilon)
    THEN LET underSqrt == {Sub(Mul(b, b), Mul(Mul(Num(4), a), c)) : c \in cs}
             sqrt == {Sqrt(us) : us \in {u \in underSqrt : Ge(u, Num(0))}}
             t == UNION {{Div(Sub(Neg(b), sq), Mul(Num(2), a)),
                          Div(Add(Neg(b), sq), Mul(Num(2), a))} : sq \in sqrt}
         IN  MinPositive(t)
    ELSE IF Gt(Abs(b), epsilon)
    THEN MinPositive({Div(Neg(c), b) : c \in cs})
    ELSE PInf

\* computeDuration had it solved for the limit 0 whatever the actuator state
computeDurationToZero(m, st, e, bias, budget, compensationFactor) ==
    LET power == getPower(st)
        a == Mul(Mul(Rat(1, 2), Mul(config.cI, compensationFactor)),
                 Coalesce(e, Num(0)))
        b == Sub(Add(bias, Mul(config.cP, Coalesce(e, Num(0)))), power)
    IN  IF st = "OFF" /\ m = "OFF" THEN PInf ELSE solveDuration(a, b, {budget})

\* computeDuration(compensationFactor) in mode m, actuator state st, with
\* this.error = e, this.biasW = bias and this.budgetJ = budget
computeDuration(m, st, e, bias, budget, compensationFactor) ==
    LET power == getPower(st)
        limit == IF st = "OFF"
                 THEN CASE m = "HEAT" -> {config.budgetThresholdJ}
                        [] m = "COOL" -> {Neg(config.budgetThresholdJ)}
                        [] OTHER      -> {Neg(config.budgetThresholdJ),
                                          config.budgetThresholdJ}
                 ELSE {Num(0)}
        a == Mul(Mul(Rat(1, 2), Mul(config.cI, compensationFactor)),
                 Coalesce(e, Num(0)))
        b == Sub(Add(bias, Mul(config.cP, Coalesce(e, Num(0)))), power)
        c == {Sub(budget, l) : l \in limit}
    IN  IF st = "OFF" /\ m = "OFF" THEN PInf ELSE solveDuration(a, b, c)

\* nextStateOf had it switched off as soon as the budget is below the threshold
nextStateOfNoHysteresis(shutdown, m, oldState, budget) ==
    IF shutdown THEN "OFF"
    ELSE IF canHeat(m) /\ Ge(budget, config.budgetThresholdJ) THEN "HEAT"
    ELSE IF canCool(m) /\ Le(budget, Neg(config.budgetThresholdJ)) THEN "COOL"
    ELSE IF oldState = "HEAT" /\ (Lt(budget, config.budgetThresholdJ) \/ ~canHeat(m))
    THEN "OFF"
    ELSE IF oldState = "COOL" /\ (Gt(budget, Neg(config.budgetThresholdJ)) \/ ~canCool(m))
    THEN "OFF"
    ELSE oldState

\* nextStateOf had it switched on as soon as the budget leaves 0
nextStateOfNoThreshold(shutdown, m, oldState, budget) ==
    IF shutdown THEN "OFF"
    ELSE IF canHeat(m) /\ Gt(budget, Num(0)) THEN "HEAT"
    ELSE IF canCool(m) /\ Lt(budget, Num(0)) THEN "COOL"
    ELSE IF oldState = "HEAT" /\ (Le(budget, Num(0)) \/ ~canHeat(m)) THEN "OFF"
    ELSE IF oldState = "COOL" /\ (Ge(budget, Num(0)) \/ ~canCool(m)) THEN "OFF"
    ELSE oldState

\* nextStateOf had it switched off on the budget alone
nextStateOfIgnoringMode(shutdown, m, oldState, budget) ==
    IF shutdown THEN "OFF"
    ELSE IF canHeat(m) /\ Ge(budget, config.budgetThresholdJ) THEN "HEAT"
    ELSE IF canCool(m) /\ Le(budget, Neg(config.budgetThresholdJ)) THEN "COOL"
    ELSE IF oldState = "HEAT" /\ Le(budget, Num(0)) THEN "OFF"
    ELSE IF oldState = "COOL" /\ Ge(budget, Num(0)) THEN "OFF"
    ELSE oldState

\* nextStateOf had it switched to HEAT on the size of the budget alone
nextStateOfAnySign(shutdown, m, oldState, budget) ==
    IF shutdown THEN "OFF"
    ELSE IF canHeat(m) /\ Ge(Abs(budget), config.budgetThresholdJ) THEN "HEAT"
    ELSE IF canCool(m) /\ Le(budget, Neg(config.budgetThresholdJ)) THEN "COOL"
    ELSE IF oldState = "HEAT" /\ (Le(budget, Num(0)) \/ ~canHeat(m)) THEN "OFF"
    ELSE IF oldState = "COOL" /\ (Ge(budget, Num(0)) \/ ~canCool(m)) THEN "OFF"
    ELSE oldState

\* the next actuator state update chooses ("Determine next state")
nextStateOf(shutdown, m, oldState, budget) ==
    IF shutdown THEN "OFF"
    ELSE IF canHeat(m) /\ Ge(budget, config.budgetThresholdJ) THEN "HEAT"
    ELSE IF canCool(m) /\ Le(budget, Neg(config.budgetThresholdJ)) THEN "COOL"
    ELSE IF oldState = "HEAT" /\ (Le(budget, Num(0)) \/ ~canHeat(m)) THEN "OFF"
    ELSE IF oldState = "COOL" /\ (Ge(budget, Num(0)) \/ ~canCool(m)) THEN "OFF"
    ELSE oldState

\* the delay of the timer update arms ("Set next iteration")
MaxTimeoutMs == 2147483647

\* durationMsOf had it taken the predicted duration as it is
durationMsOfUncapped(durationS) == Mul(durationS, Num(1000))

durationMsOf(durationS) ==
    MathMin(Mul(MathMin(durationS, config.minimumUpdateIntervalS), Num(1000)),
            Num(MaxTimeoutMs))

\* update, "Bias": the new bias and the compensation factors, from
\* oldError = this.error ?? 0, elapsed = elapsedSeconds ?? 0 and the new error
biasStep(oldError, elapsed, err) ==
    LET oldCompensationFactor == getCompensationFactor(oldError, biasW)
        gain == Mul(Mul(config.cI, oldCompensationFactor), oldError)
        newBiasWUnlimited == Add(biasW, Mul(gain, elapsed))
        newBiasW == limitPower(mode, newBiasWUnlimited)
        newCompensationFactor == getCompensationFactor(err, newBiasW)
    IN  [oldCompensationFactor |-> oldCompensationFactor,
         gain |-> gain,
         newBiasWUnlimited |-> newBiasWUnlimited,
         newBiasW |-> newBiasW,
         newCompensationFactor |-> newCompensationFactor,
         avgCompensationFactor |->
             Mul(Rat(1, 2), Add(oldCompensationFactor, newCompensationFactor))]

\* update, "Compensation for limited heating cooling capacity": the time
\* counted for P and I, from the result bs of biasStep
elapsedSecondsUnLimitedOf(bs, elapsed) ==
    IF StrictNe(bs.newBiasW, bs.newBiasWUnlimited)
    THEN Div(Sub(bs.newBiasW, biasW), bs.gain)
    ELSE elapsed

\* budgetStep had it left out the energy the actuator delivered
budgetStepWithoutUsed(bs, unlimited, oldError, elapsed, err) ==
    LET budgetAddedPJ ==
            Mul(Mul(Mul(unlimited, config.cP), bs.avgCompensationFactor), oldError)
        budgetAddedIJ == Div(Mul(unlimited, Add(biasW, bs.newBiasW)), Num(2))
        budgetAddedDJ ==
            IF error.t # "undef" THEN Mul(config.cD, Sub(err, ToNumber(error)))
            ELSE Num(0)
    IN  [budgetAddedPJ |-> budgetAddedPJ, budgetAddedIJ |-> budgetAddedIJ,
         budgetAddedDJ |-> budgetAddedDJ,
         budgetJ |-> Add(budgetJ, Add(Add(budgetAddedPJ, budgetAddedIJ), budgetAddedDJ))]

\* update, "Update budget": the energy used and added
budgetStep(bs, unlimited, oldError, elapsed, err) ==
    LET used == Sub(budgetJ, Mul(elapsed, getPower(state)))
        budgetAddedPJ ==
            Mul(Mul(Mul(unlimited, config.cP), bs.avgCompensationFactor), oldError)
        budgetAddedIJ == Div(Mul(unlimited, Add(biasW, bs.newBiasW)), Num(2))
        budgetAddedDJ ==
            IF error.t # "undef" THEN Mul(config.cD, Sub(err, ToNumber(error)))
            ELSE Num(0)
    IN  [budgetAddedPJ |-> budgetAddedPJ, budgetAddedIJ |-> budgetAddedIJ,
         budgetAddedDJ |-> budgetAddedDJ,
         budgetJ |-> Add(used, Add(Add(budgetAddedPJ, budgetAddedIJ), budgetAddedDJ))]

\* update, "Determine next state" to "Set next iteration": the fields update
\* assigns and the values it logs, from the results of the steps before
decideStep(shutdown, bs, unlimited, bu, elapsedSeconds, err, nextState) ==
    [state |-> nextState, updated |-> Num(now), error |-> err,
     biasW |-> bs.newBiasW, budgetJ |-> bu.budgetJ,
     elapsedSeconds |-> elapsedSeconds,
     oldCompensationFactor |-> bs.oldCompensationFactor,
     gain |-> bs.gain,
     newBiasWUnlimited |-> bs.newBiasWUnlimited,
     elapsedSecondsUnLimited |-> unlimited,
     budgetAddedPJ |-> bu.budgetAddedPJ, budgetAddedIJ |-> bu.budgetAddedIJ,
     budgetAddedDJ |-> bu.budgetAddedDJ,
     compensationFactor |-> bs.newCompensationFactor,
     durationS |-> computeDuration(mode, nextState, err, bs.newBiasW, bu.budgetJ,
                                   bs.newCompensationFactor)]

\* one evaluation of update(logMessage, shutdown) at time now, step by step:
\* each operator computes the next group of locals and hands on the ones
\* before it
evaluateDecide(shutdown, err, elapsedSeconds, bs, unlimited, bu) ==
    decideStep(shutdown, bs, unlimited, bu, elapsedSeconds, err,
               nextStateOf(shutdown, mode, state, bu.budgetJ))

evaluateBudget(shutdown, err, elapsedSeconds, bs, unlimited) ==
    evaluateDecide(shutdown, err, elapsedSeconds, bs, unlimited,
                   budgetStep(bs, unlimited, Coalesce(error, Num(0)),
                              Coalesce(elapsedSeconds, Num(0)), err))

evaluateBias(shutdown, err, elapsedSeconds, bs) ==
    evaluateBudget(shutdown, err, elapsedSeconds, bs,
                   elapsedSecondsUnLimitedOf(bs, Coalesce(elapsedSeconds, Num(0))))

evaluateAt(shutdown, err, elapsedSeconds) ==
    evaluateBias(shutdown, err, elapsedSeconds,
                 biasStep(Coalesce(error, Num(0)), Coalesce(elapsedSeconds, Num(0)), err))

\* Evaluate had it taken the error of the evaluation before
EvaluateStaleError(shutdown) ==
    evaluateAt(shutdown, ToNumber(Coalesce(error, Num(0))),
               IF updated.t = "undef" THEN Undefined ELSE Sub(Num(now), updated))

\* "Temperatures and error", "Time"
Evaluate(shutdown) ==
    evaluateAt(shutdown, Num(targetTemperature - currentTemperature),
               IF updated.t = "undef" THEN Undefined ELSE Sub(Num(now), updated))

NoDecision ==
    [oldState |-> "OFF", elapsedS |-> Undefined, budgetAddedDJ |-> Undefined,
     durationS |-> Undefined, compensationFactor |-> Undefined]

\* clearTimeout had it been left out of update
timersWithoutClearTimeout(pending, armed) == pending

\* the timers still pending after clearTimeout(this.scheduledUpdate), of
\* pending before it, the one in this.scheduledUpdate being pending iff armed
timersAfterClearTimeout(pending, armed) == IF armed THEN pending - 1 ELSE pending

\* update(logMessage, shutdown) with the evaluation r, run when pending of the
\* process's timers are pending and the one in this.scheduledUpdate is
\* pending iff armed
updateWith(r, shutdown, pending, armed) ==
    /\ state' = r.state
    /\ updated' = r.updated
    /\ error' = r.error
    /\ biasW' = r.biasW
    /\ budgetJ' = r.budgetJ
    /\ decision' = [oldState |-> state,
                    elapsedS |-> Coalesce(r.elapsedSeconds, Num(0)),
                    budgetAddedDJ |-> r.budgetAddedDJ, durationS |-> r.durationS,
                    compensationFactor |-> r.compensationFactor]
    /\ IF shutdown
       THEN /\ scheduled' = FALSE
            /\ delayMs' = Undefined
            /\ armedAt' = 0
            /\ timers' = timersAfterClearTimeout(pending, armed)
       ELSE /\ scheduled' = TRUE
            /\ delayMs' = durationMsOf(r.durationS)
            /\ armedAt' = now
            /\ timers' = timersAfterClearTimeout(pending, armed) + 1
    /\ UNCHANGED <<config, mode, targetTemperature, currentTemperature,
                   persisted, phase, writes, now>>

update(shutdown, pending, armed) ==
    updateWith(Evaluate(shutdown), shutdown, pending, armed)

\* ------------------------------------------------------------------------
\* Construction
\* ------------------------------------------------------------------------

StartupDelayMs == 60000

\* the state the constructor leaves when the snapshot file is p
Constructed(p) ==
    LET l == loadState(p)
    IN  /\ mode = l.mode
        /\ state = l.state
        /\ targetTemperature = l.targetTemperature
        /\ currentTemperature = l.currentTemperature
        /\ updated = l.updated
        /\ error = l.error
        /\ biasW = l.biasW
        /\ budgetJ = l.budgetJ

Init ==
    /\ config \in Configs
    /\ now = 0
    /\ persisted = NoFile
    /\ Constructed(NoFile)
    /\ scheduled = TRUE
    /\ delayMs = Num(StartupDelayMs)
    /\ armedAt = 0
    /\ timers = 1
    /\ immediates = 0
    /\ decision = NoDecision
    /\ phase = "running"
    /\ writes = 0

\* ------------------------------------------------------------------------
\* Events
\* ------------------------------------------------------------------------

\* the timer in this.scheduledUpdate has reached its delay
TimerDue == scheduled /\ Le(delayMs, Num((now - armedAt) * 1000))

\* the timer in this.scheduledUpdate expires and runs update()
TimerExpiry ==
    /\ TimerDue
    /\ update(FALSE, timers - 1, FALSE)
    /\ UNCHANGED immediates

\* a callback queued with setImmediate runs update(logMessage)
RunImmediate ==
    /\ immediates > 0
    /\ immediates' = immediates - 1
    /\ update(FALSE, timers, scheduled)

\* updateMode had it queued an update whatever the new mode is
SetModeAlwaysQueues(newMode) ==
    /\ phase = "running"
    /\ immediates < MaxImmediates
    /\ mode # newMode => writes < MaxWrites
    /\ writes' = IF mode # newMode THEN writes + 1 ELSE writes
    /\ immediates' = immediates + 1
    /\ mode' = newMode
    /\ UNCHANGED <<config, state, targetTemperature, currentTemperature, updated,
                   error, biasW, budgetJ, scheduled, delayMs, armedAt, timers,
                   decision, persisted, phase, now>>

\* HomeKit writes the mode: updateMode(newMode) runs, then the characteristic
\* takes the value
SetMode(newMode) ==
    /\ phase = "running"
    /\ immediates < MaxImmediates
    /\ mode # newMode => writes < MaxWrites
    /\ writes' = IF mode # newMode THEN writes + 1 ELSE writes
    /\ immediates' = IF mode # newMode THEN immediates + 1 ELSE immediates
    /\ mode' = newMode
    /\ UNCHANGED <<config, state, targetTemperature, currentTemperature, updated,
                   error, biasW, budgetJ, scheduled, delayMs, armedAt, timers,
                   decision, persisted, phase, now>>

\* HomeKit writes the current temperature: updateCurrentTemperature
SetCurrentTemperature(newTemperature) ==
    /\ phase = "running"
    /\ immediates < MaxImmediates
    /\ currentTemperature # newTemperature => writes < MaxWrites
    /\ writes' = IF currentTemperature # newTemperature THEN writes + 1 ELSE writes
    /\ immediates' = IF currentTemperature # newTemperature
                     THEN immediates + 1 ELSE immediates
    /\ currentTemperature' = newTemperature
    /\ UNCHANGED <<config, mode, state, targetTemperature, updated,
                   error, biasW, budgetJ, scheduled, delayMs, armedAt, timers,
                   decision, persisted, phase, now>>

\* HomeKit writes the target temperature: updateTargetTemperature
SetTargetTemperature(newTemperature) ==
    /\ phase = "running"
    /\ immediates < MaxImmediates
    /\ targetTemperature # newTemperature => writes < MaxWrites
    /\ writes' = IF targetTemperature # newTemperature THEN writes + 1 ELSE writes
    /\ immediates' = IF targetTemperature # newTemperature
                     THEN immediates + 1 ELSE immediates
    /\ targetTemperature' = newTemperature
    /\ UNCHANGED <<config, mode, state, currentTemperature, updated,
                   error, biasW, budgetJ, scheduled, delayMs, armedAt, timers,
                   decision, persisted, phase, now>>

\* the shutdown handler: clearTimeout, saveState
Shutdown ==
    /\ phase = "running"
    /\ phase' = "shutdown"
    /\ scheduled' = FALSE
    /\ delayMs' = Undefined
    /\ armedAt' = 0
    /\ timers' = IF scheduled THEN timers - 1 ELSE timers
    /\ persisted' = saveState
    /\ UNCHANGED <<config, control, immediates, decision, writes, now>>

\* the process has exited and homebridge starts again: the constructor runs
\* on the snapshot file; the callbacks queued with setImmediate have run
\* before the process exits
Restart ==
    /\ phase = "shutdown"
    /\ immediates = 0
    /\ persisted.parses
    /\ phase' = "running"
    /\ mode' = loadState(persisted).mode
    /\ state' = loadState(persisted).state
    /\ targetTemperature' = loadState(persisted).targetTemperature
    /\ currentTemperature' = loadState(persisted).currentTemperature
    /\ updated' = loadState(persisted).updated
    /\ error' = loadState(persisted).error
    /\ biasW' = loadState(persisted).biasW
    /\ budgetJ' = loadState(persisted).budgetJ
    /\ scheduled' = TRUE
    /\ delayMs' = Num(StartupDelayMs)
    /\ armedAt' = now
    /\ timers' = 1
    /\ immediates' = 0
    /\ decision' = NoDecision
    /\ UNCHANGED <<config, persisted, writes, now>>

\* a second passes; callbacks that are due run before the clock advances
Tick ==
    /\ now < MaxTime
    /\ immediates = 0
    /\ ~TimerDue
    /\ now' = now + 1
    /\ UNCHANGED <<config, control, scheduled, delayMs, armedAt, timers, immediates,
                   decision, persisted, phase, writes>>

Next ==
    \/ TimerExpiry
    \/ RunImmediate
    \/ \E m \in validModes : SetMode(m)
    \/ \E t \in CurrentTemperatures : SetCurrentTemperature(t)
    \/ \E t \in TargetTemperatures : SetTargetTemperature(t)
    \/ Shutdown
    \/ Restart
    \/ Tick

Spec == Init /\ [][Next]_vars

\* what RunImmediate does to the queue of setImmediate; within Next only
\* RunImmediate takes such a step
ImmediateRuns == immediates > 0 /\ immediates' = immediates - 1

\* the configurations with heating only
InitLive ==
    /\ Init
    /\ Gt(config.heatingPower, Num(0)) /\ IsZero(config.coolingPower)

\* the event loop runs every callback queued with setImmediate
SpecLive == InitLive /\ [][Next]_vars /\ WF_immediates(ImmediateRuns)

\* what TimerExpiry does to the timer: the due timer runs update, which arms
\* the next one now; within Next only TimerExpiry takes such a step
TimerFires ==
    /\ TimerDue
    /\ immediates' = immediates
    /\ armedAt' = now
    /\ scheduled' = TRUE

\* the event loop runs every queued callback and every timer that is due
SpecTimers ==
    InitLive /\ [][Next]_vars /\ WF_immediates(ImmediateRuns) /\ WF_armedAt(TimerFires)

\* ------------------------------------------------------------------------
\* The minutes-budget controller (src/src/accessory.ts)
\* ------------------------------------------------------------------------

getRate(st) ==
    IF st = "HEAT" THEN Num(1) ELSE IF st = "COOL" THEN Num(-1) ELSE Num(0)

\* computeDuration() of the minutes-budget controller in mode m, actuator
\* state st, with this.error = e, this.bias = bias and this.budget = budget;
\* its budgetThreshold is config.budgetThresholdJ
computeDurationMinutes(m, st, e, bias, budget) ==
    LET rate == getRate(st)
        limit == IF st = "OFF"
                 THEN CASE m = "HEAT" -> {config.budgetThresholdJ}
                        [] m = "COOL" -> {Neg(config.budgetThresholdJ)}
                        [] OTHER      -> {Neg(config.budgetThresholdJ),
                                          config.budgetThresholdJ}
                 ELSE {Num(0)}
        a == Mul(Mul(Rat(1, 2), config.cI), Coalesce(e, Num(0)))
        b == Sub(Add(bias, Mul(config.cP, Coalesce(e, Num(0)))), rate)
        c == {Sub(budget, l) : l \in limit}
    IN  IF st = "OFF" /\ m = "OFF" THEN PInf ELSE solveDuration(a, b, c)

\* limitNumber(number, limit) in mode m
limitNumber(m, number, limit) ==
    LET max == IF m \in {"HEAT", "AUTO"} THEN limit ELSE Num(0)
        min == IF m \in {"COOL", "AUTO"} THEN Neg(limit) ELSE Num(0)
    IN  MathMax(MathMin(number, max), min)

\* limitBottom without its limit
limitBottomUnlimited(m, number, limit) == number

\* limitBottom(number, limit) in mode m
limitBottom(m, number, limit) ==
    CASE m = "OFF"  -> limit
      [] m = "HEAT" -> MathMax(number, limit)
      [] m = "COOL" -> MathMin(number, limit)
      [] OTHER      -> number

\* the next actuator state update chooses ("Determine next state")
nextStateMinutes(shutdown, m, oldState, budget) ==
    IF shutdown THEN "OFF"
    ELSE IF Ge(budget, config.budgetThresholdJ) THEN "HEAT"
    ELSE IF Le(budget, Neg(config.budgetThresholdJ)) THEN "COOL"
    ELSE IF oldState = "HEAT" /\ Le(budget, Num(0)) THEN "OFF"
    ELSE IF oldState = "COOL" /\ Ge(budget, Num(0)) THEN "OFF"
    ELSE oldState

\* the delay of the timer update arms ("Set next iteration"), duration and
\* minimumUpdateInterval being minutes
durationMsOfMinutes(duration) ==
    MathMin(Mul(MathMin(duration, config.minimumUpdateIntervalS), Num(60000)),
            Num(MaxTimeoutMs))

\* update, "Update budget": the budget after the time used (used) and the P, I
\* and D additions
budgetMinutes(used, oldError, budgetElapsed, newBias, budgetAddedD) ==
    Add(used,
        Add(Add(limitBottom(mode, Mul(Mul(budgetElapsed, config.cP), oldError),
                            Neg(limitBottom(mode, used, Num(0)))),
                Div(Mul(budgetElapsed, Add(biasW, newBias)), Num(2))),
            budgetAddedD))

\* update, "Determine next state" to "Log": the fields update assigns and the
\* values it logs
decideMinutes(err, elapsed, newBias, budgetAddedD, budget, nextState) ==
    [state |-> nextState, updated |-> Num(now), error |-> err,
     biasW |-> newBias, budgetJ |-> budget, elapsedSeconds |-> elapsed,
     budgetAddedDJ |-> budgetAddedD, compensationFactor |-> Undefined,
     durationS |-> computeDurationMinutes(mode, nextState, err, newBias, budget)]

\* one evaluation of update(logMessage, shutdown) of the minutes-budget
\* controller at time now, step by step; this.bias is biasW, this.budget is
\* budgetJ, the elapsed time is minutes
evaluateMinutesDecide(shutdown, err, elapsed, newBias, budgetAddedD, budget) ==
    decideMinutes(err, elapsed, newBias, budgetAddedD, budget,
                  nextStateMinutes(shutdown, mode, state, budget))

evaluateMinutesBudget(shutdown, err, elapsed, oldError, newBias, budgetAddedD) ==
    evaluateMinutesDecide(shutdown, err, elapsed, newBias, budgetAddedD,
        budgetMinutes(Sub(budgetJ, Mul(Coalesce(elapsed, Num(0)), getRate(state))),
                      oldError, Coalesce(elapsed, Num(0)), newBias, budgetAddedD))

evaluateMinutesAt(shutdown, err, elapsed, oldError) ==
    evaluateMinutesBudget(shutdown, err, elapsed, oldError,
        limitNumber(mode,
                    Add(biasW, Mul(Mul(config.cI, oldError), Coalesce(elapsed, Num(0)))),
                    Num(1)),
        IF error.t # "undef" THEN Mul(config.cD, Sub(err, ToNumber(error)))
        ELSE Num(0))

\* "Temperatures and error", "Time"
EvaluateMinutes(shutdown) ==
    evaluateMinutesAt(shutdown, Num(targetTemperature - currentTemperature),
                      IF updated.t = "undef" THEN Undefined
                      ELSE Div(Sub(Num(now), updated), Num(60)),
                      Coalesce(error, Num(0)))

\* update(logMessage) of the minutes-budget controller, run when pending of
\* the process's timers are pending and the one in this.scheduledUpdate is
\* pending iff armed
updateMinutesWith(r, pending, armed) ==
    /\ state' = r.state
    /\ updated' = r.updated
    /\ error' = r.error
    /\ biasW' = r.biasW
    /\ budgetJ' = r.budgetJ
    /\ decision' = [oldState |-> state,
                    elapsedS |-> Coalesce(r.elapsedSeconds, Num(0)),
                    budgetAddedDJ |-> r.budgetAddedDJ, durationS |-> r.durationS,
                    compensationFactor |-> r.compensationFactor]
    /\ scheduled' = TRUE
    /\ delayMs' = durationMsOfMinutes(r.durationS)
    /\ armedAt' = now
    /\ timers' = timersAfterClearTimeout(pending, armed) + 1
    /\ UNCHANGED <<config, mode, targetTemperature, currentTemperature,
                   persisted, phase, writes, now>>

updateMinutes(pending, armed) ==
    updateMinutesWith(EvaluateMinutes(FALSE), pending, armed)

\* the timer in this.scheduledUpdate expires and runs update()
TimerExpiryMinutes ==
    /\ TimerDue
    /\ updateMinutes(timers - 1, FALSE)
    /\ UNCHANGED immediates

\* a callback queued with setImmediate runs update(logMessage)
RunImmediateMinutes ==
    /\ immediates > 0
    /\ immediates' = immediates - 1
    /\ updateMinutes(timers, scheduled)

\* a minute passes; callbacks that are due run before the clock advances
TickMinute ==
    /\ now < MaxTime * 60
    /\ immediates = 0
    /\ ~TimerDue
    /\ now' = now + 60
    /\ UNCHANGED <<config, control, scheduled, delayMs, armedAt, timers, immediates,
                   decision, persisted, phase, writes>>

\* the configurations of the minutes-budget controller: cP, cI, cD and
\* budgetThreshold (minutes) of the configurations above; modes is heat and
\* cool, the powers and k are not read
MinutesConfigs == {c \in Configs : Gt(c.heatingPower, Num(0)) /\ Gt(c.coolingPower, Num(0))}

StartupDelayMinutesMs == 20000

\* the state the constructor of the minutes-budget controller leaves without
\* a snapshot file
InitMinutes ==
    /\ config \in MinutesConfigs
    /\ now = 0
    /\ persisted = NoFile
    /\ Constructed(NoFile)
    /\ scheduled = TRUE
    /\ delayMs = Num(StartupDelayMinutesMs)
    /\ armedAt = 0
    /\ timers = 1
    /\ immediates = 0
    /\ decision = NoDecision
    /\ phase = "running"
    /\ writes = 0

NextMinutes ==
    \/ TimerExpiryMinutes
    \/ RunImmediateMinutes
    \/ \E m \in Mode : SetMode(m)
    \/ \E t \in CurrentTemperatures : SetCurrentTemperature(t)
    \/ \E t \in TargetTemperatures : SetTargetTemperature(t)
    \/ TickMinute

SpecMinutes == InitMinutes /\ [][NextMinutes]_vars

\* ------------------------------------------------------------------------
\* computeDuration as a function: every input, then one application
\* ------------------------------------------------------------------------

DurationErrors  == {Undefined, Null, NaN, Num(0), Num(1), Num(-1), Rat(1, 2)}
DurationBiases  == {NaN, Num(0), Num(2), Num(-2), Rat(1, 2)}
DurationBudgets == {NaN, PInf, NInf, NZero, Num(0), Num(2), Num(-2), Num(3), Rat(-1, 2)}
DurationFactors == {NaN, PInf, Num(0), Num(1), Rat(1, 2), Num(2), Num(-1)}

InitDuration ==
    /\ config \in Configs
    /\ mode \in Mode
    /\ state \in State
    /\ error \in DurationErrors
    /\ biasW \in DurationBiases
    /\ budgetJ \in DurationBudgets
    /\ decision \in {[NoDecision EXCEPT !.compensationFactor = f] : f \in DurationFactors}
    /\ targetTemperature = 20
    /\ currentTemperature = 20
    /\ updated = Undefined
    /\ scheduled = FALSE
    /\ delayMs = Undefined
    /\ armedAt = 0
    /\ timers = 0
    /\ immediates = 0
    /\ persisted = NoFile
    /\ phase = "running"
    /\ writes = 0
    /\ now = 0

\* computeDuration(compensationFactor) of the energy-budget controller is
\* applied to the state
ApplyComputeDuration ==
    /\ decision.durationS = Undefined
    /\ decision' = [decision EXCEPT !.durationS =
           computeDuration(mode, state, error, biasW, budgetJ,
                           decision.compensationFactor)]
    /\ UNCHANGED <<config, control, scheduled, delayMs, armedAt, timers,
                   immediates, persisted, phase, writes, now>>

\* computeDuration() of the minutes-budget controller is applied to the state
ApplyComputeDurationMinutes ==
    /\ decision.durationS = Undefined
    /\ decision' = [decision EXCEPT !.durationS =
           computeDurationMinutes(mode, state, error, biasW, budgetJ)]
    /\ UNCHANGED <<config, control, scheduled, delayMs, armedAt, timers,
                   immediates, persisted, phase, writes, now>>

NextDuration == ApplyComputeDuration \/ ApplyComputeDurationMinutes

SpecDuration == InitDuration /\ [][NextDuration]_vars

\* ------------------------------------------------------------------------
\* loadState on snapshot files with fields missing
\* ------------------------------------------------------------------------

\* snapshot files of a heating thermostat with any subset of the fields
\* missing; the fields present hold values that are not the defaults
Snapshots ==
    {[exists |-> TRUE, parses |-> TRUE, missing |-> ms,
      mode |-> "HEAT", state |-> "HEAT", targetTemperature |-> 21,
      temperature |-> 21, updated |-> Num(0), error |-> Num(1),
      biasW |-> Num(1), budgetJ |-> Num(1)] : ms \in SUBSET PersistedFields}

\* a file whose text is not JSON
CorruptFile == [NoFile EXCEPT !.exists = TRUE, !.parses = FALSE]

\* the constructor runs on a file JSON.parse rejects: loadState throws the
\* SyntaxError, the constructor does not return, no timer is armed and no
\* handler is registered
RestartFails ==
    /\ phase = "shutdown"
    /\ immediates = 0
    /\ persisted.exists /\ ~persisted.parses
    /\ phase' = "failed"
    /\ scheduled' = FALSE
    /\ delayMs' = Undefined
    /\ armedAt' = 0
    /\ timers' = 0
    /\ UNCHANGED <<config, control, immediates, decision, persisted, writes, now>>

\* homebridge is about to start on one of the snapshot files
InitLoad ==
    /\ config \in {c \in Configs : Gt(c.heatingPower, Num(0))}
    /\ now = 0
    /\ persisted \in Snapshots \cup {CorruptFile}
    /\ Constructed(NoFile)
    /\ scheduled = FALSE
    /\ delayMs = Undefined
    /\ armedAt = 0
    /\ timers = 0
    /\ immediates = 0
    /\ decision = NoDecision
    /\ phase = "shutdown"
    /\ writes = 0

\* the constructor runs, then HomeKit sends temperatures
NextLoad ==
    \/ Restart
    \/ RestartFails
    \/ RunImmediate
    \/ \E t \in CurrentTemperatures : SetCurrentTemperature(t)

SpecLoad == InitLoad /\ [][NextLoad]_vars

\* ------------------------------------------------------------------------
\* The constructor on configurations that cannot work
\* ------------------------------------------------------------------------

\* configurations with a budgetThreshold of 0 or below, or without heating
\* and cooling power
InvalidConfigs ==
    {c \in
     [heatingPower : {Num(0), Num(2)},
      coolingPower : {Num(0)},
      cP : {Num(1)},
      cI : {Num(1)},
      cD : {Num(2)},
      k : {Num(0)},
      dt : {Undefined},
      budgetThresholdJ : {Num(-2), Num(0), Num(2)},
      minimumUpdateIntervalS : {PInf}] :
     IsZero(c.heatingPower) \/ Le(c.budgetThresholdJ, Num(0))}

\* the state the constructor leaves on such a configuration: it reads the
\* configuration without looking at the values, and goes on as always
InitInvalid ==
    /\ config \in InvalidConfigs
    /\ now = 0
    /\ persisted = NoFile
    /\ Constructed(NoFile)
    /\ scheduled = TRUE
    /\ delayMs = Num(StartupDelayMs)
    /\ armedAt = 0
    /\ timers = 1
    /\ immediates = 0
    /\ decision = NoDecision
    /\ phase = "running"
    /\ writes = 0

SpecInvalid == InitInvalid /\ [][Next]_vars

\* ------------------------------------------------------------------------
\* A heating thermostat without integral gain
\* ------------------------------------------------------------------------

\* cP 1000, cI 0, cD 0, k 0, budgetThreshold 75000, heating only
ScenarioB ==
    [heatingPower |-> Num(2000), coolingPower |-> Num(0), cP |-> Num(1000),
     cI |-> Num(0), cD |-> Num(0), k |-> Num(0), dt |-> Undefined,
     budgetThresholdJ |-> Num(75000), minimumUpdateIntervalS |-> PInf]

\* the same with the small numbers of Configs and a derivative gain
ScenarioConfigs ==
    {ScenarioB,
     [ScenarioB EXCEPT !.heatingPower = Num(2), !.cP = Num(1), !.cD = Num(2),
                       !.budgetThresholdJ = Num(2)]}

\* a freshly constructed controller on which HomeKit has just set the mode
\* HEAT and the target temperature 22; the two updates are queued
InitScenario ==
    /\ config \in ScenarioConfigs
    /\ now = 0
    /\ persisted = NoFile
    /\ mode = "HEAT"
    /\ state = "OFF"
    /\ targetTemperature = 22
    /\ currentTemperature = 20
    /\ updated = Undefined
    /\ error = Undefined
    /\ biasW = Num(0)
    /\ budgetJ = Num(0)
    /\ scheduled = TRUE
    /\ delayMs = Num(StartupDelayMs)
    /\ armedAt = 0
    /\ timers = 1
    /\ immediates = 2
    /\ decision = NoDecision
    /\ phase = "running"
    /\ writes = 0

SpecScenario == InitScenario /\ [][Next]_vars

\* ------------------------------------------------------------------------
\* A thermostat that heats and cools, in AUTO mode
\* ------------------------------------------------------------------------

\* the configurations with heating and cooling power
AutoConfigs ==
    {c \in Configs : Gt(c.heatingPower, Num(0)) /\ Gt(c.coolingPower, Num(0))}

\* a freshly constructed controller on which HomeKit has just set the mode
\* AUTO; the update is queued
InitAuto ==
    /\ config \in AutoConfigs
    /\ now = 0
    /\ persisted = NoFile
    /\ mode = "AUTO"
    /\ state = "OFF"
    /\ targetTemperature = 20
    /\ currentTemperature = 20
    /\ updated = Undefined
    /\ error = Undefined
    /\ biasW = Num(0)
    /\ budgetJ = Num(0)
    /\ scheduled = TRUE
    /\ delayMs = Num(StartupDelayMs)
    /\ armedAt = 0
    /\ timers = 1
    /\ immediates = 1
    /\ decision = NoDecision
    /\ phase = "running"
    /\ writes = 0

SpecAuto == InitAuto /\ [][Next]_vars

\* ------------------------------------------------------------------------
\* A heating thermostat with dataLog.minimumUpdateInterval
\* ------------------------------------------------------------------------

\* the heating-only configurations, with minimumUpdateInterval 1 s and without
IntervalConfigs ==
    {[c EXCEPT !.minimumUpdateIntervalS = i] :
        c \in {h \in Configs : IsZero(h.coolingPower)}, i \in {Num(1), PInf}}

InitInterval ==
    /\ config \in IntervalConfigs
    /\ now = 0
    /\ persisted = NoFile
    /\ Constructed(NoFile)
    /\ scheduled = TRUE
    /\ delayMs = Num(StartupDelayMs)
    /\ armedAt = 0
    /\ timers = 1
    /\ immediates = 0
    /\ decision = NoDecision
    /\ phase = "running"
    /\ writes = 0

SpecInterval == InitInterval /\ [][Next]_vars

\* ------------------------------------------------------------------------
\* update as a function: every input, then one evaluation
\* ------------------------------------------------------------------------

\* the errors, biases and budgets an evaluation has left behind
UpdateErrors  == {Num(-1), Num(0), Num(1)}
UpdateBiases  == {Num(-2), Num(-1), Num(0), Num(1), Num(2), NaN}
UpdateBudgets == {Num(-3), Num(-2), Num(-1), Num(0), Num(1), Num(2), Num(3),
                  Rat(1, 2), NaN}

\* a controller on which HomeKit has just changed a value, the update queued:
\* either fresh (no sample, nothing accrued, actuator OFF), or with the sample
\* of an evaluation at second 0. That evaluation left the bias within the
\* powers (0 without integral gain), a budget above 0 with the actuator in
\* HEAT and below 0 with it in COOL; bias and budget are NaN only with
\* overshoot compensation and cooling power
UpdateInputs ==
    /\ config \in Configs
    /\ mode \in validModes
    /\ state \in State
    /\ state = "HEAT" => Gt(config.heatingPower, Num(0))
    /\ state = "COOL" => Gt(config.coolingPower, Num(0))
    /\ targetTemperature \in TargetTemperatures
    /\ currentTemperature \in CurrentTemperatures
    /\ now \in 0..MaxTime
    /\ \/ /\ updated = Undefined
          /\ error = Undefined
          /\ biasW = Num(0)
          /\ budgetJ = Num(0)
          /\ state = "OFF"
          /\ now = 0
       \/ /\ updated = Num(0)
          /\ error \in UpdateErrors
          /\ biasW \in UpdateBiases
          /\ budgetJ \in UpdateBudgets
          /\ IsNaN(biasW) \/ IsNaN(budgetJ) =>
                 (Gt(config.k, Num(0)) /\ Gt(config.coolingPower, Num(0)))
          /\ IsZero(config.cI) => (IsZero(biasW) \/ IsNaN(biasW))
          /\ IsNaN(biasW)
             \/ (Le(Neg(config.coolingPower), biasW) /\ Le(biasW, config.heatingPower))
          /\ state = "HEAT" => (Gt(budgetJ, Num(0)) \/ IsNaN(budgetJ))
          /\ state = "COOL" => (Lt(budgetJ, Num(0)) \/ IsNaN(budgetJ))
    /\ scheduled = TRUE
    /\ delayMs = Num(MaxTimeoutMs)
    /\ armedAt = 0
    /\ timers = 1
    /\ decision = NoDecision
    /\ persisted = NoFile
    /\ phase = "running"
    /\ writes = 0

InitUpdate == UpdateInputs /\ immediates = 1

\* the queued update runs
NextUpdate == RunImmediate

SpecUpdate == InitUpdate /\ [][NextUpdate]_vars

\* ------------------------------------------------------------------------
\* Updates queued in the same tick
\* ------------------------------------------------------------------------

\* setters have queued two or more updates in the same tick
InitTwice == UpdateInputs /\ immediates \in 2..MaxImmediates

\* the queued updates run one after the other, nothing changing in between
NextTwice == RunImmediate

SpecTwice == InitTwice /\ [][NextTwice]_vars

\* ------------------------------------------------------------------------
\* update with and without its shutdown argument
\* ------------------------------------------------------------------------

\* update(logMessage, true) runs: the call shutdown() has as a comment. It
\* arms no timer
RunShutdownUpdate ==
    /\ immediates > 0
    /\ immediates' = immediates - 1
    /\ update(TRUE, timers, scheduled)

\* update is applied to every input of InitUpdate, with shutdown false and
\* with shutdown true
NextDecide == RunImmediate \/ RunShutdownUpdate

SpecDecide == InitUpdate /\ [][NextDecide]_vars

\* ------------------------------------------------------------------------
\* The energy-budget controller with the powers 1 and k = 0
\* ------------------------------------------------------------------------

\* heatingPower = coolingPower = 1, no overshoot compensation
DegenerateConfigs ==
    [heatingPower : {Num(1)},
     coolingPower : {Num(1)},
     cP : {Num(1)},
     cI : {Num(0), Num(1)},
     cD : {Num(2)},
     k : {Num(0)},
     dt : {Undefined},
     budgetThresholdJ : {Num(2)},
     minimumUpdateIntervalS : {PInf}]

InitDegenerate ==
    /\ config \in DegenerateConfigs
    /\ now = 0
    /\ persisted = NoFile
    /\ Constructed(NoFile)
    /\ scheduled = TRUE
    /\ delayMs = Num(StartupDelayMs)
    /\ armedAt = 0
    /\ timers = 1
    /\ immediates = 0
    /\ decision = NoDecision
    /\ phase = "running"
    /\ writes = 0

SpecDegenerate == InitDegenerate /\ [][Next]_vars

\* ------------------------------------------------------------------------
\* Properties
\* ------------------------------------------------------------------------

\* a step that runs update
IsUpdate == TimerExpiry \/ RunImmediate

\* x and y are the same number (NaN is the same as NaN, -0 as 0)
SameNumber(x, y) == x = y \/ NumEq(x, y)

\* the last evaluation's compensation factor, getCompensationFactor(error, biasW)
Evaluated == decision.compensationFactor.t # "undef"

\* C1, as claimed: an update switches the actuator from HEAT to OFF only if
\* the budget after accrual is <= 0, and from COOL to OFF only if it is >= 0.
C1_OffOnlyAtZero ==
    [][/\ (state = "HEAT" /\ state' = "OFF" /\ IsUpdate) => Le(budgetJ', Num(0))
       /\ (state = "COOL" /\ state' = "OFF" /\ IsUpdate) => Ge(budgetJ', Num(0))]_vars

\* C1, amended: an update switches the actuator from HEAT to OFF only if the
\* budget after accrual is <= 0 or the mode no longer permits heating, and
\* from COOL to OFF only if it is >= 0 or the mode no longer permits cooling.
C1_OffOnlyAtZeroOrModeChange ==
    [][/\ (state = "HEAT" /\ state' = "OFF" /\ IsUpdate) =>
              (Le(budgetJ', Num(0)) \/ ~canHeat(mode))
       /\ (state = "COOL" /\ state' = "OFF" /\ IsUpdate) =>
              (Ge(budgetJ', Num(0)) \/ ~canCool(mode))]_vars

\* an update has switched HEAT to OFF in a mode that permits heating
C1_Witness ==
    /\ decision.oldState = "HEAT"
    /\ state = "OFF"
    /\ canHeat(mode)
    /\ Le(budgetJ, Num(0))
    /\ decision.elapsedS.t # "undef"

\* C2: within a run the actuator goes from OFF to HEAT only in an update whose
\* budget after accrual is >= budgetThreshold, and from OFF to COOL only in an
\* update whose budget is <= -budgetThreshold.
C2_OnOnlyAtThreshold ==
    [][~Restart =>
        /\ (state = "OFF" /\ state' = "HEAT") =>
               (IsUpdate /\ Ge(budgetJ', config.budgetThresholdJ))
        /\ (state = "OFF" /\ state' = "COOL") =>
               (IsUpdate /\ Le(budgetJ', Neg(config.budgetThresholdJ)))]_vars

\* an update has switched OFF to HEAT
C2_Witness ==
    /\ decision.elapsedS.t # "undef"
    /\ decision.oldState = "OFF"
    /\ state = "HEAT"
    /\ Ge(budgetJ, config.budgetThresholdJ)

\* C3: an update that runs in mode OFF leaves the actuator OFF and predicts
\* the duration +Infinity.
C3_ModeOff ==
    [][(mode = "OFF" /\ mode' = "OFF" /\ IsUpdate) =>
        (state' = "OFF" /\ decision'.durationS = PInf)]_vars

\* an update in mode OFF has switched off a heating actuator whose budget is
\* beyond the threshold
C3_Witness ==
    /\ mode = "OFF"
    /\ decision.oldState = "HEAT"
    /\ state = "OFF"
    /\ decision.durationS = PInf
    /\ Ge(budgetJ, config.budgetThresholdJ)

\* C4, as claimed: the actuator is OFF whenever the mode is OFF.
C4_OffWhenModeOff == mode = "OFF" => state = "OFF"

\* C5, as claimed: the actuator is HEAT only if heatingPower > 0 and the mode
\* is HEAT or AUTO, and COOL only if coolingPower > 0 and the mode is COOL or
\* AUTO.
C5_StateAllowedByMode ==
    /\ state = "HEAT" => (Gt(config.heatingPower, Num(0)) /\ mode \in {"HEAT", "AUTO"})
    /\ state = "COOL" => (Gt(config.coolingPower, Num(0)) /\ mode \in {"COOL", "AUTO"})

\* C6, as claimed: biasW is within [-coolingPower, heatingPower].
C6_BiasWithinPower ==
    /\ Le(Neg(config.coolingPower), biasW)
    /\ Le(biasW, config.heatingPower)

\* C7, as claimed: an update whose elapsed time is 0 leaves budgetJ and biasW
\* unchanged.
C7_NoAccrualWithoutTime ==
    [][(IsUpdate /\ IsZero(decision'.elapsedS)) =>
        (SameNumber(budgetJ', budgetJ) /\ SameNumber(biasW', biasW))]_vars

\* C8, as claimed: the compensation factor is in (0, 1] when the headroom is
\* > 0, and is 1 when k = 0.
C8_FactorInUnitInterval ==
    Evaluated =>
        /\ Gt(headroomOf(error, biasW), Num(0)) =>
               (Gt(decision.compensationFactor, Num(0))
                /\ Le(decision.compensationFactor, Num(1)))
        /\ IsZero(config.k) => decision.compensationFactor = Num(1)

\* C9, as claimed: the compensation factor is 0 when the headroom is <= 0.
C9_FactorZeroWhenSaturated ==
    (Evaluated /\ Le(headroomOf(error, biasW), Num(0))) =>
        IsZero(decision.compensationFactor)

\* C10: computeDuration returns a strictly positive number or +Infinity, never
\* a value <= 0 and never NaN.
C10_DurationPositive ==
    decision.durationS.t # "undef" =>
        \/ decision.durationS = PInf
        \/ (IsFinite(decision.durationS) /\ Gt(decision.durationS, Num(0)))

\* computeDuration has returned a finite duration from the quadratic branch
\* with a budget beyond the limit, where one root is negative
C10_Witness ==
    /\ IsFinite(decision.durationS)
    /\ Gt(decision.durationS, Num(0))
    /\ state = "HEAT"
    /\ Gt(budgetJ, Num(0))
    /\ error = Num(-1)
    /\ config.cI = Num(1)
    /\ decision.compensationFactor = Num(1)

\* the limits computeDuration solves for in mode m and actuator state st
limitsOf(m, st) ==
    IF st = "OFF"
    THEN CASE m = "HEAT" -> {config.budgetThresholdJ}
           [] m = "COOL" -> {Neg(config.budgetThresholdJ)}
           [] OTHER      -> {Neg(config.budgetThresholdJ), config.budgetThresholdJ}
    ELSE {Num(0)}

\* the coefficients a and b of computeDuration, and its list c
coefficientA == Mul(Mul(Rat(1, 2), Mul(config.cI, decision.compensationFactor)),
                    Coalesce(error, Num(0)))
coefficientB == Sub(Add(biasW, Mul(config.cP, Coalesce(error, Num(0)))), getPower(state))
coefficientsC == {Sub(budgetJ, l) : l \in limitsOf(mode, state)}

\* the equation computeDuration solves: a is dropped when |a| <= epsilon, and
\* then b when |b| <= epsilon
effectiveA == IF Gt(Abs(coefficientA), epsilon) THEN coefficientA ELSE Num(0)
effectiveB ==
    IF Gt(Abs(coefficientA), epsilon) \/ Gt(Abs(coefficientB), epsilon)
    THEN coefficientB ELSE Num(0)

\* a t^2 + b t + c
PolyAt(a, b, c, t) == Add(Add(Mul(a, Mul(t, t)), Mul(b, t)), c)

\* a t^2 + b t + c = 0 has a root t > 0 (decided on the coefficients, without
\* a square root)
HasPositiveRoot(a, b, c) ==
    IF ~IsZero(a)
    THEN LET B == Div(b, a)
             C == Div(c, a)
             v == Div(Neg(B), Num(2))
             D == Sub(Mul(B, B), Mul(Num(4), C))
         IN  Ge(D, Num(0)) /\ (Gt(v, Num(0)) \/ Lt(C, Num(0)))
    ELSE IF ~IsZero(b) THEN Gt(Div(Neg(c), b), Num(0))
    ELSE FALSE

\* a s^2 + b s + c = 0 has a root s with 0 < s < t
HasRootBelow(a, b, c, t) ==
    IF ~IsZero(a)
    THEN LET B == Div(b, a)
             C == Div(c, a)
             v == Div(Neg(B), Num(2))
             D == Sub(Mul(B, B), Mul(Num(4), C))
             q == PolyAt(Num(1), B, C, t)
         IN  /\ Ge(D, Num(0))
             /\ \/ Gt(C, Num(0)) /\ Gt(v, Num(0)) /\ (Gt(t, v) \/ Lt(q, Num(0)))
                \/ (Gt(v, Num(0)) \/ Lt(C, Num(0))) /\ Gt(t, v) /\ Gt(q, Num(0))
    ELSE IF ~IsZero(b)
    THEN Gt(Div(Neg(c), b), Num(0)) /\ Lt(Div(Neg(c), b), t)
    ELSE FALSE

\* the coefficients are finite numbers and every square root computeDuration
\* takes is exact
ExactCoefficients ==
    /\ IsFinite(coefficientA) /\ IsFinite(coefficientB)
    /\ \A c \in coefficientsC :
           /\ IsFinite(c)
           /\ LET us == Sub(Mul(coefficientB, coefficientB),
                             Mul(Mul(Num(4), coefficientA), c))
              IN  Ge(us, Num(0)) => NumEq(Mul(Sqrt(us), Sqrt(us)), us)

\* t is the smallest strictly positive root over all the limits
SmallestPositiveRoot(t) ==
    /\ IsFinite(t) /\ Gt(t, Num(0))
    /\ \E c \in coefficientsC : IsZero(PolyAt(effectiveA, effectiveB, c, t))
    /\ \A c \in coefficientsC : ~HasRootBelow(effectiveA, effectiveB, c, t)

\* C11: when computeDuration solves (the actuator is on or the mode is not
\* OFF) with finite coefficients and exact square roots, it returns the
\* smallest strictly positive root of a t^2 + b t + (budget - limit) = 0 over
\* all limits, the equation being linear when |a| <= epsilon; it returns
\* +Infinity exactly when no limit has a positive root, which includes |a| and
\* |b| both <= epsilon.
C11_SmallestPositiveRoot ==
    [][(ApplyComputeDuration /\ ~(state = "OFF" /\ mode = "OFF") /\ ExactCoefficients) =>
        /\ decision'.durationS = PInf <=>
               \A c \in coefficientsC : ~HasPositiveRoot(effectiveA, effectiveB, c)
        /\ decision'.durationS # PInf => SmallestPositiveRoot(decision'.durationS)]_vars

\* computeDuration has returned the smaller of two positive roots, from OFF in
\* mode AUTO with two limits
C11_Witness ==
    /\ mode = "AUTO" /\ state = "OFF"
    /\ ExactCoefficients
    /\ Gt(Abs(coefficientA), epsilon)
    /\ decision.durationS =
           computeDuration(mode, state, error, biasW, budgetJ, decision.compensationFactor)
    /\ SmallestPositiveRoot(decision.durationS)
    /\ \E c \in coefficientsC :
           /\ IsZero(PolyAt(effectiveA, effectiveB, c, decision.durationS))
           /\ LET other == Sub(Div(Neg(effectiveB), effectiveA), decision.durationS)
              IN  Gt(other, decision.durationS)

\* C12, as claimed: the shutdown handler leaves the actuator state OFF and
\* the snapshot it writes has actuator state OFF.
C12_ShutdownSwitchesOff ==
    [][Shutdown => (state' = "OFF" /\ persisted'.state = "OFF")]_vars

\* C13: at most one update timer is pending, and it is the one held in
\* this.scheduledUpdate, so no superseded timer is left to fire.
C13_OneTimerPending ==
    /\ timers <= 1
    /\ timers = 1 <=> scheduled

\* an update queued by a setter has run while the startup timer was pending
\* and has armed the only pending timer with its predicted duration
C13_Witness ==
    /\ phase = "running"
    /\ writes > 0
    /\ decision.elapsedS.t # "undef"
    /\ now * 1000 < StartupDelayMs
    /\ scheduled
    /\ timers = 1
    /\ delayMs = durationMsOf(decision.durationS)
    /\ delayMs # Num(StartupDelayMs)

\* C14: once a setter has queued an update, the queued updates run (only
\* running one takes it off the queue), and before the clock advances; such an
\* update takes the error from the temperatures now
\* stored, chooses an actuator state the mode now stored permits, and arms the
\* timer with the duration it predicts.
C14_ChangeIsEvaluated ==
    /\ (immediates > 0) ~> (immediates = 0)
    /\ [][immediates > 0 => now' = now]_vars
    /\ [][RunImmediate =>
           /\ error' = Num(targetTemperature - currentTemperature)
           /\ state' = "HEAT" => canHeat(mode)
           /\ state' = "COOL" => canCool(mode)
           /\ scheduled' /\ armedAt' = now
           /\ delayMs' = durationMsOf(decision'.durationS)]_vars

\* the update queued by a change of the current temperature has run with the
\* new error and has armed the timer with a finite predicted duration
C14_Witness ==
    /\ phase = "running"
    /\ writes > 0
    /\ immediates = 0
    /\ decision.elapsedS.t # "undef"
    /\ error = Num(targetTemperature - currentTemperature)
    /\ error # Num(0)
    /\ scheduled /\ armedAt = now
    /\ IsFinite(decision.durationS)
    /\ delayMs = Mul(decision.durationS, Num(1000))

\* a step in which HomeKit changes a stored value
ValueChanges ==
    \/ mode' # mode
    \/ targetTemperature' # targetTemperature
    \/ currentTemperature' # currentTemperature

\* C15: within a run an update is queued exactly by the steps in which a
\* setter changes the stored value, one update per change; such a step leaves
\* the actuator state, biasW, budgetJ, error, updated and the pending timer
\* untouched, and a setter called with the stored value changes nothing.
C15_SetterQueuesIffChanged ==
    [][~Restart =>
        /\ (immediates' > immediates) <=> ValueChanges
        /\ ValueChanges =>
               /\ immediates' = immediates + 1
               /\ UNCHANGED <<state, biasW, budgetJ, error, updated,
                              scheduled, delayMs, armedAt, timers>>
        /\ \A m \in validModes : (SetMode(m) /\ m = mode) => UNCHANGED vars
        /\ \A t \in CurrentTemperatures :
               (SetCurrentTemperature(t) /\ t = currentTemperature) => UNCHANGED vars
        /\ \A t \in TargetTemperatures :
               (SetTargetTemperature(t) /\ t = targetTemperature) => UNCHANGED vars]_vars

\* the current temperature has been changed and the update it queued has not
\* run yet: the control state is still the constructor's
C15_Witness ==
    /\ immediates = 1
    /\ writes = 1
    /\ currentTemperature # 20
    /\ decision = NoDecision
    /\ updated = Undefined /\ error = Undefined
    /\ state = "OFF" /\ biasW = Num(0) /\ budgetJ = Num(0)
    /\ scheduled /\ delayMs = Num(StartupDelayMs)

\* C16, as claimed: loadState of the file saveState writes reproduces mode,
\* actuator state, target temperature, current temperature, updated, error,
\* biasW and budgetJ.
C16_RoundTrip ==
    LET l == loadState(saveState)
    IN  /\ l.mode = mode
        /\ l.state = state
        /\ l.targetTemperature = targetTemperature
        /\ l.currentTemperature = currentTemperature
        /\ l.updated = updated
        /\ SameNumber(l.error, error)
        /\ SameNumber(l.biasW, biasW)
        /\ SameNumber(l.budgetJ, budgetJ)

\* what C17 and its amendment share: loadState gives the missing fields other
\* than the current temperature their defaults, and the first evaluation
\* after a restore without updated has elapsed time 0
RestoresDefaults ==
    /\ [][Restart =>
           /\ "mode" \in persisted.missing => mode' = "OFF"
           /\ "state" \in persisted.missing => state' = "OFF"
           /\ "targetTemperature" \in persisted.missing => targetTemperature' = 20
           /\ "biasW" \in persisted.missing => biasW' = Num(0)
           /\ "budgetJ" \in persisted.missing => budgetJ' = Num(0)
           /\ "error" \in persisted.missing => error' = Undefined
           /\ "updated" \in persisted.missing => updated' = Undefined]_vars
    /\ [][(IsUpdate /\ updated = Undefined) => decision'.elapsedS = Num(0)]_vars

\* C17, as claimed: loadState gives every missing field its default, the
\* current temperature 20 among them.
C17_MissingFieldsDefault ==
    /\ RestoresDefaults
    /\ [][Restart =>
           ("temperature" \in persisted.missing => currentTemperature' = 20)]_vars

\* C17, amended: loadState gives every missing field its default; a missing
\* current temperature becomes the restored target temperature, which is 20
\* when the target temperature is missing too.
C17_MissingFieldsDefaultToTarget ==
    /\ RestoresDefaults
    /\ [][Restart =>
           ("temperature" \in persisted.missing =>
                currentTemperature' = targetTemperature')]_vars

\* a snapshot with a target temperature but without current temperature and
\* updated has been restored, and the first evaluation has run on it
C17_Witness ==
    /\ phase = "running"
    /\ {"temperature", "updated"} \subseteq persisted.missing
    /\ "targetTemperature" \notin persisted.missing
    /\ targetTemperature = 21
    /\ decision.elapsedS = Num(0)
    /\ updated = Num(now)

\* C18, as claimed: the constructor never fails on the snapshot file, also on
\* a file that cannot be parsed.
C18_LoadNeverFatal == phase # "failed"

\* C19, as claimed: on a configuration with budgetThreshold <= 0 or without
\* any power the controller does not start: no timer is armed and no
\* evaluation runs.
C19_InvalidConfigRefused ==
    /\ ~scheduled
    /\ timers = 0
    /\ decision = NoDecision

\* (budgetThreshold - budgetJ) / (biasW + cP * error)
LinearPrediction(budget, bias, e) ==
    Div(Sub(config.budgetThresholdJ, budget), Add(bias, Mul(config.cP, e)))

\* cP 1000, target 22, current 20: the first evaluation in mode HEAT leaves
\* budgetJ = 0, keeps the actuator OFF and predicts 37.5 s
FirstEvaluationOfScenarioB ==
    [][(config = ScenarioB /\ updated = Undefined /\ mode = "HEAT"
        /\ targetTemperature = 22 /\ currentTemperature = 20 /\ IsUpdate) =>
           /\ budgetJ' = Num(0)
           /\ state' = "OFF"
           /\ decision'.durationS = Rat(75, 2)]_vars

TimerAtPredictedDuration ==
    /\ state = "HEAT"
    /\ immediates = 0
    /\ IsFinite(decision.durationS)
    /\ updated.t = "num"
    /\ Sub(Num(now), updated) = decision.durationS
    /\ error = Num(targetTemperature - currentTemperature)
    /\ TimerExpiry

\* C21, as claimed: with the actuator in HEAT and no input change, the
\* evaluation the timer runs at the predicted duration finds budgetJ equal to
\* 0 and switches the actuator to OFF.
C21_OffExactlyAtZero ==
    [][TimerAtPredictedDuration => (IsZero(budgetJ') /\ state' = "OFF")]_vars

\* ------------------------------------------------------------------------
\* One actuator state per evaluation
\* ------------------------------------------------------------------------

\* C22: in AUTO mode with heatingPower > 0 and coolingPower > 0 every
\* evaluation leaves the actuator in exactly one of HEAT, COOL, OFF: the
\* conditions that select HEAT and COOL never hold together, HEAT is not left
\* selected on a budget that calls for cooling, nor COOL on one that calls
\* for heating.
C22_ExactlyOneState ==
    [][(mode = "AUTO" /\ Gt(config.heatingPower, Num(0))
        /\ Gt(config.coolingPower, Num(0)) /\ IsUpdate) =>
           /\ state' \in State
           /\ ~(Ge(budgetJ', config.budgetThresholdJ)
                /\ Le(budgetJ', Neg(config.budgetThresholdJ)))
           /\ state' = "HEAT" => ~Le(budgetJ', Neg(config.budgetThresholdJ))
           /\ state' = "COOL" => ~Ge(budgetJ', config.budgetThresholdJ)]_vars

\* an evaluation in AUTO mode has found the error negative after a positive
\* one and has switched the actuator from HEAT to COOL
C22_Witness ==
    /\ mode = "AUTO"
    /\ Gt(decision.elapsedS, Num(0))
    /\ decision.budgetAddedDJ = Mul(config.cD, Num(-2))
    /\ decision.oldState = "HEAT"
    /\ state = "COOL"
    /\ Lt(error, Num(0))
    /\ Le(budgetJ, Neg(config.budgetThresholdJ))

\* ------------------------------------------------------------------------
\* The delay of the next timer
\* ------------------------------------------------------------------------

\* C23: every update that is not the shutdown's arms the next timer with the
\* delay min(min(predicted duration, minimumUpdateInterval) * 1000, 2147483647)
\* ms; the delay never exceeds minimumUpdateInterval seconds and never exceeds
\* 2147483647 ms, also when the predicted duration is +Infinity.
C23_DelayCapped ==
    [][IsUpdate =>
        /\ scheduled'
        /\ armedAt' = now
        /\ delayMs' = MathMin(Mul(MathMin(decision'.durationS,
                                          config.minimumUpdateIntervalS), Num(1000)),
                              Num(2147483647))
        /\ Le(delayMs', Mul(config.minimumUpdateIntervalS, Num(1000)))
        /\ Le(delayMs', Num(2147483647))]_vars

\* an update has predicted +Infinity with minimumUpdateInterval 1 s and has
\* armed the timer with 1000 ms
C23_Witness ==
    /\ config.minimumUpdateIntervalS = Num(1)
    /\ decision.durationS = PInf
    /\ scheduled
    /\ delayMs = Num(1000)

\* an update has predicted +Infinity without minimumUpdateInterval and has
\* armed the timer with 2147483647 ms
C23_WitnessHostMaximum ==
    /\ config.minimumUpdateIntervalS = PInf
    /\ decision.durationS = PInf
    /\ scheduled
    /\ delayMs = Num(2147483647)

\* ------------------------------------------------------------------------
\* The minutes-budget controller in mode OFF
\* ------------------------------------------------------------------------

\* a step that runs update of the minutes-budget controller
IsUpdateMinutes == TimerExpiryMinutes \/ RunImmediateMinutes

\* C24, as claimed: in the minutes-budget controller an evaluation that runs
\* with mode = OFF leaves the actuator OFF, whatever the budget, the bias, the
\* previous error and the new error are.
C24_MinutesOffInModeOff ==
    [][(mode = "OFF" /\ IsUpdateMinutes) => state' = "OFF"]_vars

\* ------------------------------------------------------------------------
\* The accrual of one update
\* ------------------------------------------------------------------------

\* a step that runs update: it takes a callback from the queue of setImmediate
\* or finds the timer due
UpdateRuns == (immediates' < immediates \/ TimerDue) /\ IsUpdate

\* the previous error and the elapsed time an update that runs now takes, 0
\* where there is none, and the error it finds
OldErrorNow == ToNumber(Coalesce(error, Num(0)))
ElapsedNow == IF updated.t = "undef" THEN Num(0) ELSE Sub(Num(now), updated)
ErrorNow == Num(targetTemperature - currentTemperature)

\* newBiasWUnlimited, elapsedSecondsUnLimited and budgetAddedPJ of an update
\* that runs now
UnlimitedBiasNow == biasStep(OldErrorNow, ElapsedNow, ErrorNow).newBiasWUnlimited
UnlimitedTimeNow ==
    elapsedSecondsUnLimitedOf(biasStep(OldErrorNow, ElapsedNow, ErrorNow), ElapsedNow)
PEnergyNow ==
    budgetStep(biasStep(OldErrorNow, ElapsedNow, ErrorNow), UnlimitedTimeNow,
               OldErrorNow, ElapsedNow, ErrorNow).budgetAddedPJ

\* power(HEAT) = +heatingPower, power(COOL) = -coolingPower, power(OFF) = 0
PowerOf(st) ==
    CASE st = "HEAT" -> config.heatingPower
      [] st = "COOL" -> Neg(config.coolingPower)
      [] OTHER       -> Num(0)

\* the budget the claim of C25 gives for an update with elapsed time e and
\* effective time unlimited that takes the bias from oldBias to newBias and
\* the error from oldError (undefined if there is none) to newError
ClaimedBudget(oldBudget, st, e, unlimited, oldError, newError, oldBias, newBias) ==
    LET oe == ToNumber(Coalesce(oldError, Num(0)))
        factorAvg == Div(Add(getCompensationFactor(oe, oldBias),
                             getCompensationFactor(newError, newBias)), Num(2))
        dTerm == IF oldError.t = "undef" THEN Num(0)
                 ELSE Mul(config.cD, Sub(newError, ToNumber(oldError)))
    IN  Add(Add(Add(Sub(oldBudget, Mul(PowerOf(st), e)),
                    Mul(Mul(Mul(unlimited, config.cP), factorAvg), oe)),
                Div(Mul(unlimited, Add(oldBias, newBias)), Num(2))),
            dTerm)

\* C25: after an update with elapsed time e, budgetJ is the old budgetJ minus
\* power(old actuator state) * e, plus elapsedUnlimited * cP * factorAvg *
\* oldError, plus elapsedUnlimited * (oldBiasW + newBiasW) / 2, plus
\* cD * (newError - oldError), the D term being 0 when there is no previous
\* error.
C25_BudgetAccrual ==
    [][UpdateRuns =>
        SameNumber(budgetJ',
                   ClaimedBudget(budgetJ, state, decision'.elapsedS,
                                 UnlimitedTimeNow, error, error', biasW, biasW'))]_vars

\* an update has run a second or more after the one before, with the actuator
\* in HEAT, overshoot compensation, an error that went from 1 to 0 and a
\* budget that stayed finite
C25_Witness ==
    /\ decision.oldState = "HEAT"
    /\ Gt(decision.elapsedS, Num(0))
    /\ decision.budgetAddedDJ = Neg(config.cD)
    /\ IsZero(error)
    /\ Gt(config.k, Num(0))
    /\ IsFinite(budgetJ)

\* x brought into [lo, hi]; a NaN stays NaN
Clamp(x, lo, hi) == IF Lt(x, lo) THEN lo ELSE IF Gt(x, hi) THEN hi ELSE x

\* the lower and the upper end of the bias in mode m
BiasFloor(m) == IF m \in {"COOL", "AUTO"} THEN Neg(config.coolingPower) ELSE Num(0)
BiasCeiling(m) == IF m \in {"HEAT", "AUTO"} THEN config.heatingPower ELSE Num(0)

\* oldBias + cI * factorOld * oldError * elapsed
ProposedBias(oldBias, oldError, elapsed) ==
    Add(oldBias,
        Mul(Mul(Mul(config.cI, getCompensationFactor(oldError, oldBias)), oldError),
            elapsed))

\* the average of compensationFactor(oldError, oldBias) and
\* compensationFactor(newError, newBias)
FactorAverage(oldError, oldBias, newError, newBias) ==
    Div(Add(getCompensationFactor(oldError, oldBias),
            getCompensationFactor(newError, newBias)), Num(2))

\* the P energy of the time unlimited with that average
ClaimedPEnergy(unlimited, oldError, oldBias, newError, newBias) ==
    Mul(Mul(Mul(unlimited, config.cP),
            FactorAverage(oldError, oldBias, newError, newBias)), oldError)

\* C26: in update the new bias is clamp(oldBiasW + cI * factorOld * oldError *
\* elapsed) with factorOld = compensationFactor(oldError, oldBiasW), the clamp
\* being [0, heatingPower] in HEAT mode, [-coolingPower, 0] in COOL mode,
\* [-coolingPower, heatingPower] in AUTO and [0, 0] in OFF (a proposal that is
\* NaN stays NaN); the factor of the P energy is the average of factorOld and
\* compensationFactor(newError, newBiasW).
C26_BiasClamped ==
    [][UpdateRuns =>
        /\ SameNumber(biasW',
                      Clamp(ProposedBias(biasW, OldErrorNow, decision'.elapsedS),
                            BiasFloor(mode), BiasCeiling(mode)))
        /\ SameNumber(PEnergyNow,
                      ClaimedPEnergy(UnlimitedTimeNow, OldErrorNow, biasW,
                                     error', biasW'))]_vars

\* an update in HEAT mode, a second or more after the one before, has found
\* the error at -1 as before, an integral gain and a bias of 0: the proposal
\* was below 0 and the bias was clamped to 0
C26_Witness ==
    /\ mode = "HEAT"
    /\ config.cI = Num(1)
    /\ Gt(config.coolingPower, Num(0))
    /\ Gt(decision.elapsedS, Num(0))
    /\ error = Num(-1)
    /\ IsZero(decision.budgetAddedDJ)
    /\ IsZero(biasW)

\* ------------------------------------------------------------------------
\* The time counted for P and I
\* ------------------------------------------------------------------------

\* C27, as claimed: in every update the effective time elapsedUnlimited
\* satisfies 0 <= elapsedUnlimited <= elapsedSeconds; it is elapsedSeconds
\* when the bias was not clamped.
C27_UnlimitedTimeWithinElapsed ==
    [][UpdateRuns =>
        /\ Le(Num(0), UnlimitedTimeNow)
        /\ Le(UnlimitedTimeNow, decision'.elapsedS)
        /\ SameNumber(biasW', UnlimitedBiasNow) =>
               SameNumber(UnlimitedTimeNow, decision'.elapsedS)]_vars

\* C28, as claimed: whenever update finds that clamping changed the bias, the
\* divisor cI * oldCompensationFactor * oldError of elapsedSecondsUnLimited is
\* not 0.
C28_DivisorNotZero ==
    [][(UpdateRuns /\ StrictNe(biasW', UnlimitedBiasNow)) =>
        ~IsZero(biasStep(OldErrorNow, ElapsedNow, ErrorNow).gain)]_vars

\* ------------------------------------------------------------------------
\* The first evaluation
\* ------------------------------------------------------------------------

\* C29, as claimed: the first evaluation of a controller with no prior sample
\* (updated undefined, error undefined) uses the elapsed time 0 and the
\* derivative term 0, accrues no budget and no bias, and records updated = now
\* and error = target - current.
C29_FirstEvaluation ==
    [][(updated = Undefined /\ error = Undefined /\ UpdateRuns) =>
        /\ decision'.elapsedS = Num(0)
        /\ decision'.budgetAddedDJ = Num(0)
        /\ SameNumber(budgetJ', budgetJ)
        /\ SameNumber(biasW', biasW)
        /\ updated' = Num(now)
        /\ error' = Num(targetTemperature - currentTemperature)]_vars

\* ------------------------------------------------------------------------
\* The trajectory computeDuration solves
\* ------------------------------------------------------------------------

\* the first time t > 0 at which 0.5 * cI * factor * e * t^2 +
\* (bias + cP * factor * e - power(st)) * t + budget reaches a limit of the
\* actuator state st in mode m; +Infinity with mode and actuator OFF
ClaimedDuration(m, st, e, bias, budget, factor) ==
    IF st = "OFF" /\ m = "OFF" THEN PInf
    ELSE solveDuration(Mul(Mul(Mul(Rat(1, 2), config.cI), factor), e),
                       Sub(Add(bias, Mul(Mul(config.cP, factor), e)), PowerOf(st)),
                       {Sub(budget, l) : l \in limitsOf(m, st)})

\* C30, as claimed: the duration an update predicts is the solution of
\* b(t) = 0.5 * cI * factor * error * t^2 + (bias + cP * factor * error -
\* power) * t + budget with the compensation factor of the evaluation, power
\* being the power of the actuator state the evaluation has chosen.
C30_TrajectoryWithFactor ==
    [][UpdateRuns =>
        SameNumber(decision'.durationS,
                   ClaimedDuration(mode, state', error', biasW', budgetJ',
                                   decision'.compensationFactor))]_vars

\* ------------------------------------------------------------------------
\* The decision list of the next actuator state
\* ------------------------------------------------------------------------

\* the ordered decision list of C31
DecisionList(shutdown, m, budget, threshold, oldState) ==
    CASE shutdown -> "OFF"
      [] ~shutdown /\ m \in {"HEAT", "AUTO"} /\ Ge(budget, threshold) -> "HEAT"
      [] OTHER ->
         CASE m \in {"COOL", "AUTO"} /\ Le(budget, Neg(threshold)) -> "COOL"
           [] OTHER ->
              CASE oldState = "HEAT" /\ (Le(budget, Num(0)) \/ m \notin {"HEAT", "AUTO"})
                       -> "OFF"
                [] OTHER ->
                   CASE oldState = "COOL"
                        /\ (Ge(budget, Num(0)) \/ m \notin {"COOL", "AUTO"}) -> "OFF"
                     [] OTHER -> oldState

\* C31: the next actuator state update chooses is the value of the ordered
\* decision list on (shutdown, mode, budgetJ after accrual, budgetThreshold,
\* old state): shutdown gives OFF; else heating permitted and budget >=
\* threshold gives HEAT; else cooling permitted and budget <= -threshold gives
\* COOL; else old state HEAT with budget <= 0 or heating not permitted gives
\* OFF; else old state COOL with budget >= 0 or cooling not permitted gives
\* OFF; else the old state is kept.
C31_DecisionList ==
    [][/\ RunImmediate =>
              state' = DecisionList(FALSE, mode, budgetJ', config.budgetThresholdJ, state)
       /\ RunShutdownUpdate =>
              state' = DecisionList(TRUE, mode, budgetJ', config.budgetThresholdJ, state)]_vars

\* an update has switched a heating actuator OFF in a mode that does not
\* permit heating, on a budget above 0 and below the threshold
C31_Witness ==
    /\ decision.oldState = "HEAT"
    /\ state = "OFF"
    /\ scheduled
    /\ mode \in {"OFF", "COOL"}
    /\ Gt(budgetJ, Num(0))
    /\ Lt(budgetJ, config.budgetThresholdJ)

\* update(logMessage, true) has switched OFF a heating actuator whose budget
\* is at the threshold or above
C31_WitnessShutdown ==
    /\ decision.oldState = "HEAT"
    /\ state = "OFF"
    /\ ~scheduled
    /\ mode = "HEAT"
    /\ Ge(budgetJ, config.budgetThresholdJ)

\* ------------------------------------------------------------------------
\* The minutes-budget controller as a case of the energy-budget controller
\* ------------------------------------------------------------------------

\* what update of the minutes-budget controller computes on the state an
\* update of the energy-budget controller runs on now, the elapsed time taken
\* in the same unit
MinutesNow ==
    evaluateMinutesAt(FALSE, ErrorNow,
                      IF updated.t = "undef" THEN Undefined ELSE Sub(Num(now), updated),
                      Coalesce(error, Num(0)))

\* C32, as claimed: with k = 0 and heatingPower = coolingPower = 1 the
\* energy-budget controller and the minutes-budget controller produce the same
\* actuator state, bias, budget and predicted duration in every evaluation.
C32_MinutesIsDegenerateCase ==
    [][UpdateRuns =>
        /\ state' = MinutesNow.state
        /\ SameNumber(biasW', MinutesNow.biasW)
        /\ SameNumber(budgetJ', MinutesNow.budgetJ)
        /\ SameNumber(decision'.durationS, MinutesNow.durationS)]_vars

\* ------------------------------------------------------------------------
\* The P and I terms of the minutes-budget controller
\* ------------------------------------------------------------------------

\* the minutes since the last evaluation ("Time": budgetElapsed)
ElapsedMinutesNow ==
    IF updated.t = "undef" THEN Num(0) ELSE Div(Sub(Num(now), updated), Num(60))

\* the budget after the time used was subtracted ("Used")
UsedMinutesNow == Sub(budgetJ, Mul(ElapsedMinutesNow, getRate(state)))

\* budgetAddedP
BudgetAddedPNow ==
    limitBottom(mode, Mul(Mul(ElapsedMinutesNow, config.cP), OldErrorNow),
                Neg(limitBottom(mode, UsedMinutesNow, Num(0))))

\* budgetAddedI, for the bias the evaluation stores
BudgetAddedI(newBias) == Div(Mul(ElapsedMinutesNow, Add(biasW, newBias)), Num(2))

\* C33: in an evaluation of the minutes-budget controller the budget is the
\* budget after use plus budgetAddedP, budgetAddedI and budgetAddedD, and the
\* P term does not drive it more negative: in mode HEAT the budget after use
\* plus budgetAddedP is at least min(budget after use, 0), in mode COOL at most
\* max(budget after use, 0), and in mode OFF budgetAddedP is 0.
C33_PTermLimited ==
    [][IsUpdateMinutes =>
        /\ SameNumber(budgetJ', Add(Add(UsedMinutesNow, BudgetAddedPNow),
                                    Add(BudgetAddedI(biasW'), decision'.budgetAddedDJ)))
        /\ mode = "HEAT" =>
              Ge(Add(UsedMinutesNow, BudgetAddedPNow), MathMin(UsedMinutesNow, Num(0)))
        /\ mode = "COOL" =>
              Le(Add(UsedMinutesNow, BudgetAddedPNow), MathMax(UsedMinutesNow, Num(0)))
        /\ mode = "OFF" => SameNumber(BudgetAddedPNow, Num(0))]_vars

\* an evaluation in mode HEAT after a minute or more with the error negative
\* before and after it: the P term is negative before it is limited
C33_Witness ==
    /\ mode = "HEAT"
    /\ Gt(decision.elapsedS, Num(0))
    /\ error.t = "num" /\ Lt(error, Num(0))
    /\ IsZero(decision.budgetAddedDJ)
    /\ Lt(budgetJ, Num(0))

\* C34, as claimed: budgetAddedI = budgetElapsed * (bias + newBias) / 2 is never
\* negative in an evaluation of the minutes-budget controller, the evaluation
\* right after a mode change included.
C34_ITermNotNegative ==
    [][IsUpdateMinutes => Ge(BudgetAddedI(biasW'), Num(0))]_vars

\* ------------------------------------------------------------------------
\* Actuator state, budget and mode after an evaluation
\* ------------------------------------------------------------------------

\* C35, as claimed: after an update that is not the shutdown update, HEAT
\* implies budgetJ > 0 and a mode that can heat, COOL implies budgetJ < 0 and a
\* mode that can cool, and OFF implies budgetJ < budgetThreshold in the modes
\* that can heat and budgetJ > -budgetThreshold in the modes that can cool.
C35_StateMatchesBudget ==
    [][UpdateRuns =>
        /\ state' = "HEAT" => (Gt(budgetJ', Num(0)) /\ canHeat(mode))
        /\ state' = "COOL" => (Lt(budgetJ', Num(0)) /\ canCool(mode))
        /\ state' = "OFF" =>
              /\ canHeat(mode) => Lt(budgetJ', config.budgetThresholdJ)
              /\ canCool(mode) => Gt(budgetJ', Neg(config.budgetThresholdJ))]_vars

\* C36, as claimed: with finite configuration values and finite temperatures
\* budgetJ and biasW are finite numbers in every state the controller reaches,
\* never NaN and never an infinity.
C36_BudgetAndBiasFinite == IsFinite(budgetJ) /\ IsFinite(biasW)

\* ------------------------------------------------------------------------
\* After shutdown
\* ------------------------------------------------------------------------

\* C37, as claimed: once shutdown() has run no update evaluation runs and no
\* timer is armed again, a deferred update queued before shutdown included, so
\* the control state stays the one the snapshot holds.
C37_NoUpdateAfterShutdown ==
    [][(phase = "shutdown" /\ phase' = "shutdown") =>
          /\ ~UpdateRuns
          /\ ~scheduled' /\ timers' = 0
          /\ UNCHANGED <<state, updated, error, biasW, budgetJ>>]_vars

\* ------------------------------------------------------------------------
\* The controller never stalls
\* ------------------------------------------------------------------------

\* the timer in this.scheduledUpdate is the one pending timer and expires
\* after a finite time
TimerArmed ==
    /\ timers = 1
    /\ scheduled
    /\ delayMs.t = "num"
    /\ Ge(delayMs, Num(0)) /\ Le(delayMs, Num(MaxTimeoutMs))

\* C38: from construction until shutdown exactly one update timer is armed,
\* with a finite delay, also after an evaluation that predicted +Infinity, and
\* a timer that is due leads to an evaluation, as a queued update does: an
\* evaluation always happens again.
C38_NeverStalls ==
    /\ [](phase = "running" => TimerArmed)
    /\ (phase = "running" /\ TimerDue)
          ~> (phase # "running" \/ (updated = Num(now) /\ armedAt = now))
    /\ (phase = "running" /\ immediates > 0)
          ~> (phase # "running" \/ (updated = Num(now) /\ armedAt = now))

\* an evaluation has predicted +Infinity and has armed the timer with the
\* largest delay
C38_Witness ==
    /\ phase = "running"
    /\ decision.durationS = PInf
    /\ TimerArmed
    /\ delayMs = Num(MaxTimeoutMs)
    /\ updated = Num(now)

\* a timer armed by an evaluation with its predicted duration has become due
C38_WitnessTimerDue ==
    /\ phase = "running"
    /\ TimerDue
    /\ now > armedAt
    /\ delayMs = durationMsOf(decision.durationS)

\* ------------------------------------------------------------------------
\* The first evaluation after a restore
\* ------------------------------------------------------------------------

\* update runs for the first time on a state loadState restored from a
\* snapshot that has the field updated
FirstAfterRestore ==
    /\ phase = "running"
    /\ decision = NoDecision
    /\ persisted.exists
    /\ "updated" \notin persisted.missing
    /\ UpdateRuns

\* the downtime: now minus the persisted updated
Downtime == Sub(Num(now), persisted.updated)

\* C39: the first evaluation after loadState restored a snapshot with the
\* field updated takes elapsedSeconds = now - persisted updated, integrates the
\* persisted error into the persisted bias over that time (clamped to the
\* range of the mode now stored), and subtracts
\* power(persisted actuator state) * elapsedSeconds from the persisted budgetJ
\* before it adds the P, I and D energy of the persisted error, as an
\* evaluation of a controller that had kept those values does.
C39_RestoreCountsDowntime ==
    [][FirstAfterRestore =>
        /\ SameNumber(decision'.elapsedS, Downtime)
        /\ decision'.oldState = persisted.state
        /\ SameNumber(biasW',
                      Clamp(ProposedBias(ToNumber(persisted.biasW),
                                         ToNumber(persisted.error), Downtime),
                            BiasFloor(mode), BiasCeiling(mode)))
        /\ SameNumber(budgetJ',
                      ClaimedBudget(ToNumber(persisted.budgetJ), persisted.state,
                                    Downtime, UnlimitedTimeNow, persisted.error,
                                    error', ToNumber(persisted.biasW), biasW'))]_vars

\* the first evaluation after a restore has run a second or more after the
\* persisted updated, on a snapshot with the actuator in HEAT
C39_Witness ==
    /\ phase = "running"
    /\ persisted.exists
    /\ "updated" \notin persisted.missing
    /\ persisted.state = "HEAT"
    /\ decision.oldState = "HEAT"
    /\ Gt(decision.elapsedS, Num(0))
    /\ SameNumber(Sub(updated, decision.elapsedS), persisted.updated)
    /\ IsFinite(budgetJ)

\* ------------------------------------------------------------------------
\* update at a fixed instant
\* ------------------------------------------------------------------------

\* C40: a second update at the same instant, with mode, target and current
\* temperature unchanged, leaves actuator state, biasW, budgetJ and error as
\* the first left them and predicts the same duration (a NaN stays NaN).
C40_UpdateIdempotent ==
    [][(decision # NoDecision /\ RunImmediate) =>
          /\ state' = state
          /\ error' = error
          /\ SameNumber(biasW', biasW)
          /\ SameNumber(budgetJ', budgetJ)
          /\ SameNumber(decision'.durationS, decision.durationS)
          /\ delayMs' = delayMs]_vars

\* the second of two updates queued in the same tick has run, after a first
\* that switched the actuator to HEAT with elapsed time, an error and a D term
C40_Witness ==
    /\ immediates = 0
    /\ IsZero(decision.elapsedS)
    /\ IsZero(decision.budgetAddedDJ)
    /\ decision.oldState = "HEAT"
    /\ state = "HEAT"
    /\ now > 0
    /\ updated = Num(now)
    /\ error = Num(1)
    /\ IsFinite(budgetJ)
    /\ IsFinite(decision.durationS)

====
